---- MODULE Spec2Model ----
(***************************************************************************)
(* Schedule evaluation and state reconciliation of the tag-driven          *)
(* scheduler (src/lambda/lambda_function.py).                              *)
(*                                                                         *)
(* Tag values are texts: sequences of one-character strings, so that       *)
(* strip(), lower(), split() and int() are computed character by           *)
(* character as the Python code computes them.  A dictionary of tags is a  *)
(* function whose DOMAIN is the set of keys present; tags.get(k) is None   *)
(* exactly when k is not in the DOMAIN.                                    *)
(***************************************************************************)
EXTENDS Integers, Sequences, FiniteSets, TLC

VARIABLES
    settings,   \* the run's settings (_load_settings)
    now,        \* the run's time context: now_minutes and now_token
    tags,       \* the tag dictionary of the resource under evaluation
    res,        \* the resource descriptor as the provider reports it
    last,       \* what the last driver invocation saw, called and returned
    issued,     \* mutating provider calls issued so far
    succeeded,  \* mutating provider calls that returned without error
    verdict,    \* result of a bare _evaluate_schedule call
    win,        \* arguments and result of a bare _should_run call
    run         \* one run of handler: its position, inputs and effects

vars == <<settings, now, tags, res, last, issued, succeeded, verdict, win, run>>

----------------------------------------------------------------------------
(* Texts and the Python string operations the code uses.                   *)

Whitespace == {" "}

Digits == <<"0", "1", "2", "3", "4", "5", "6", "7", "8", "9">>

IsDigit(c) == \E i \in 1..Len(Digits) : Digits[i] = c

DigitValue(c) == (CHOOSE i \in 1..Len(Digits) : Digits[i] = c) - 1

UpperCase == <<"A","B","C","D","E","F","G","H","I","J","K","L","M",
               "N","O","P","Q","R","S","T","U","V","W","X","Y","Z">>

LowerCase == <<"a","b","c","d","e","f","g","h","i","j","k","l","m",
               "n","o","p","q","r","s","t","u","v","w","x","y","z">>

LowerChar(c) ==
    IF \E i \in 1..Len(UpperCase) : UpperCase[i] = c
    THEN LowerCase[CHOOSE i \in 1..Len(UpperCase) : UpperCase[i] = c]
    ELSE c

\* str.lower()
Lower(t) == [i \in 1..Len(t) |-> LowerChar(t[i])]

UpperChar(c) ==
    IF \E i \in 1..Len(LowerCase) : LowerCase[i] = c
    THEN UpperCase[CHOOSE i \in 1..Len(LowerCase) : LowerCase[i] = c]
    ELSE c

\* str.upper()
Upper(t) == [i \in 1..Len(t) |-> UpperChar(t[i])]

\* str.strip()
Strip(t) ==
    LET keep == {i \in 1..Len(t) : t[i] \notin Whitespace}
    IN  IF keep = {} THEN <<>>
        ELSE LET lo == CHOOSE i \in keep : \A j \in keep : i <= j
                 hi == CHOOSE i \in keep : \A j \in keep : j <= i
             IN  SubSeq(t, lo, hi)

\* sep in text
Contains(t, sep) == \E i \in 1..Len(t) : t[i] = sep

FirstIndex(t, sep) ==
    CHOOSE i \in 1..Len(t) : t[i] = sep /\ \A j \in 1..(i - 1) : t[j] # sep

\* str.split(sep): the list of the parts between the separators
RECURSIVE Split(_, _)
Split(t, sep) ==
    IF ~Contains(t, sep) THEN <<t>>
    ELSE LET i == FirstIndex(t, sep)
         IN  <<SubSeq(t, 1, i - 1)>> \o Split(SubSeq(t, i + 1, Len(t)), sep)

\* str.split(sep, 1) on a text that holds sep: the parts around the first one
SplitOnce(t, sep) ==
    LET i == FirstIndex(t, sep)
    IN  <<SubSeq(t, 1, i - 1), SubSeq(t, i + 1, Len(t))>>

RECURSIVE DecimalValue(_)
DecimalValue(ds) ==
    IF ds = <<>> THEN 0
    ELSE 10 * DecimalValue(SubSeq(ds, 1, Len(ds) - 1)) + DigitValue(ds[Len(ds)])

Raised == [ok |-> FALSE, val |-> 0]

Returned(v) == [ok |-> TRUE, val |-> v]

\* int(text): surrounding whitespace is dropped, one sign is allowed, the rest
\* is decimal digits, single underscores allowed between digits; anything else
\* raises ValueError
IntOfDigits(negative, body) ==
    IF ~(/\ body # <<>>
         /\ \A i \in 1..Len(body) : IsDigit(body[i]) \/ body[i] = "_"
         /\ IsDigit(body[1]) /\ IsDigit(body[Len(body)])
         /\ \A i \in 1..(Len(body) - 1) : ~(body[i] = "_" /\ body[i + 1] = "_"))
    THEN Raised
    ELSE IF negative THEN Returned(0 - DecimalValue(SelectSeq(body, IsDigit)))
    ELSE Returned(DecimalValue(SelectSeq(body, IsDigit)))

IntOfStripped(s) ==
    IF s # <<>> /\ s[1] \in {"+", "-"}
    THEN IntOfDigits(s[1] = "-", SubSeq(s, 2, Len(s)))
    ELSE IntOfDigits(FALSE, s)

IntOfText(t) == IntOfStripped(Strip(t))

----------------------------------------------------------------------------
(* The pure functions of the evaluator.                                    *)

\* _parse_time: minutes of the day, or ValueError (ok = FALSE)
\* MinuteOfDay with the hour allowed up to 24
MinuteOfDay_HourUpTo24(hour, minute) ==
    IF ~hour.ok \/ ~minute.ok THEN Raised
    ELSE IF hour.val < 0 \/ hour.val > 24 \/ minute.val < 0 \/ minute.val > 59
         THEN Raised
    ELSE Returned(hour.val * 60 + minute.val)

\* the range test and the result of _parse_time, for the results of the two int() calls
MinuteOfDay(hour, minute) ==
    IF ~hour.ok \/ ~minute.ok THEN Raised
    ELSE IF hour.val < 0 \/ hour.val > 23 \/ minute.val < 0 \/ minute.val > 59
         THEN Raised
    ELSE Returned(hour.val * 60 + minute.val)

\* the two int() calls of _parse_time, for the parts around the first colon
TimeOfParts(parts) == MinuteOfDay(IntOfText(parts[1]), IntOfText(parts[2]))

\* _parse_time after the strip
TimeOfText(text) ==
    IF Contains(text, ":") THEN TimeOfParts(SplitOnce(text, ":"))
    ELSE MinuteOfDay(IntOfText(text), Returned(0))

parse_time(value) == TimeOfText(Strip(value))

\* _should_run with the stop minute inside the window
should_run_StopInclusive(now_minutes, start_minutes, stop_minutes) ==
    IF start_minutes = stop_minutes THEN FALSE
    ELSE IF start_minutes < stop_minutes
         THEN start_minutes <= now_minutes /\ now_minutes <= stop_minutes
    ELSE now_minutes >= start_minutes \/ now_minutes < stop_minutes

\* _should_run with the two halves of a window across midnight conjoined
should_run_WrapAnd(now_minutes, start_minutes, stop_minutes) ==
    IF start_minutes = stop_minutes THEN FALSE
    ELSE IF start_minutes < stop_minutes
         THEN start_minutes <= now_minutes /\ now_minutes < stop_minutes
    ELSE now_minutes >= start_minutes /\ now_minutes < stop_minutes

\* _should_run
should_run(now_minutes, start_minutes, stop_minutes) ==
    IF start_minutes = stop_minutes THEN FALSE
    ELSE IF start_minutes < stop_minutes
         THEN start_minutes <= now_minutes /\ now_minutes < stop_minutes
    ELSE now_minutes >= start_minutes \/ now_minutes < stop_minutes

\* An optional value: None, or Some(v).  dict.get(k) of a key that is absent is None.
None == <<>>

Some(v) == <<v>>

Get(d, k) == IF k \in DOMAIN d THEN Some(d[k]) ELSE None

\* _tag_value_match(actual, expected), both optional texts
\* MatchStripped comparing the case as well
MatchStripped_CaseSensitive(actual, expected) ==
    IF expected = <<>> THEN TRUE
    ELSE Strip(actual) = expected

MatchStripped(actual, expected) ==
    IF expected = <<>> THEN TRUE
    ELSE Lower(Strip(actual)) = Lower(expected)

tag_value_match(actual, expected) ==
    IF actual = None THEN FALSE
    ELSE IF expected = None THEN TRUE
    ELSE MatchStripped(actual[1], Strip(expected[1]))

\* _parse_weekdays(value): None, or Some(set of the trimmed lower-cased entries)
\* WeekdayParts without the lower-casing
WeekdayParts_CaseSensitive(raw) ==
    {Strip(raw[i]) : i \in {j \in 1..Len(raw) : Strip(raw[j]) # <<>>}}

\* the entries of the comma-separated list that are not blank, trimmed and lower-cased
WeekdayParts(raw) ==
    {Lower(Strip(raw[i])) : i \in {j \in 1..Len(raw) : Strip(raw[j]) # <<>>}}

SomeUnlessEmpty(parts) == IF parts = {} THEN None ELSE Some(parts)

\* WeekdaysOfText keeping the blank entries of the list
WeekdaysOfText_BlankEntriesKept(text) ==
    IF text = <<>> THEN None
    ELSE Some({ Lower(Strip(Split(text, ",")[i])) : i \in 1..Len(Split(text, ",")) })

WeekdaysOfText(text) ==
    IF text = <<>> THEN None
    ELSE SomeUnlessEmpty(WeekdayParts(Split(text, ",")))

parse_weekdays(value) ==
    IF value = None THEN None ELSE WeekdaysOfText(Strip(value[1]))

\* The weekday names of strftime("%a"), Monday first, lower-cased by _weekday_token
WeekdayTokens ==
    << <<"m","o","n">>, <<"t","u","e">>, <<"w","e","d">>, <<"t","h","u">>,
       <<"f","r","i">>, <<"s","a","t">>, <<"s","u","n">> >>

\* _weekday_token(now), for the day of the week d (1 = Monday)
weekday_token(d) == WeekdayTokens[d]

\* _evaluate_schedule: None (undetermined), Some(TRUE) (run) or Some(FALSE) (halt)
\* the steps of it, last first: the window, once both times are parsed
\* (a ValueError of _parse_time is caught and gives None)
EvaluateParsed(start_minutes, stop_minutes, now_minutes) ==
    IF ~start_minutes.ok \/ ~stop_minutes.ok THEN None
    ELSE Some(should_run(now_minutes, start_minutes.val, stop_minutes.val))

\* the start and stop tags
EvaluateWindow(start_value, stop_value, now_minutes) ==
    IF start_value = None \/ stop_value = None THEN None
    ELSE EvaluateParsed(parse_time(start_value[1]), parse_time(stop_value[1]),
                        now_minutes)

\* EvaluateWeekdays with a day outside the set taken for halt
EvaluateWeekdays_ExcludedIsHalt(schedule_weekend, tgs, config, now_minutes, now_token) ==
    IF schedule_weekend = None THEN None
    ELSE IF now_token \notin schedule_weekend[1] THEN Some(FALSE)
    ELSE EvaluateWindow(Get(tgs, config.start_key), Get(tgs, config.stop_key),
                        now_minutes)

\* the weekday set
EvaluateWeekdays(schedule_weekend, tgs, config, now_minutes, now_token) ==
    IF schedule_weekend = None THEN None
    ELSE IF now_token \notin schedule_weekend[1] THEN None
    ELSE EvaluateWindow(Get(tgs, config.start_key), Get(tgs, config.stop_key),
                        now_minutes)

evaluate_schedule(tgs, config, now_minutes, now_token) ==
    IF ~tag_value_match(Get(tgs, config.schedule_key), config.schedule_value)
    THEN None
    ELSE EvaluateWeekdays(parse_weekdays(Get(tgs, config.weekday_key)), tgs, config,
                          now_minutes, now_token)

----------------------------------------------------------------------------
(* Settings and records.                                                   *)

\* str(n) of an integer
RECURSIVE NaturalText(_)
NaturalText(n) ==
    IF n < 10 THEN <<Digits[n + 1]>>
    ELSE NaturalText(n \div 10) \o <<Digits[(n % 10) + 1]>>

TextOfInt(n) == IF n < 0 THEN <<"-">> \o NaturalText(0 - n) ELSE NaturalText(n)

\* _parse_int(value): None for None and for a value int() rejects
NoneIfRaised(r) == IF r.ok THEN Some(r.val) ELSE None

parse_int(value) == IF value = None THEN None ELSE NoneIfRaised(IntOfText(value[1]))

\* the texts _env_bool takes for true
Truthy == { <<"1">>, <<"t","r","u","e">>, <<"y","e","s">>, <<"y">> }

\* _env_bool(name, default), for the value raw of the variable (None when unset)
env_bool(raw, default) ==
    IF raw = None THEN default ELSE Lower(Strip(raw[1])) \in Truthy

DefaultTimezone == <<"A","s","i","a","/","S","e","o","u","l">>

\* text or default: the stripped text unless it is empty
StrippedOr(text, default) == IF Strip(text) = <<>> THEN default ELSE Strip(text)

\* _load_settings, for the environment env (a dictionary of texts): the tag
\* keys are the defaults, the schedule value is stripped or defaults to "True"
load_settings(env) ==
    [ timezone            |-> IF Get(env, "TIMEZONE") = None THEN DefaultTimezone
                              ELSE StrippedOr(env["TIMEZONE"], DefaultTimezone),
      enable_ec2          |-> env_bool(Get(env, "ENABLE_EC2"), TRUE),
      enable_rds          |-> env_bool(Get(env, "ENABLE_RDS"), FALSE),
      enable_asg          |-> env_bool(Get(env, "ENABLE_ASG"), FALSE),
      tag_schedule_key    |-> "Schedule",
      tag_schedule_value  |-> IF Get(env, "TAG_SCHEDULE_VALUE") = None
                              THEN <<"T","r","u","e">>
                              ELSE Strip(env["TAG_SCHEDULE_VALUE"]),
      tag_start_key       |-> "Schedule_Start",
      tag_stop_key        |-> "Schedule_Stop",
      tag_weekday_key     |-> "Schedule_Weekend",
      tag_asg_min_key     |-> "Schedule_Asg_Min",
      tag_asg_max_key     |-> "Schedule_Asg_Max",
      tag_asg_desired_key |-> "Schedule_Asg_Desired",
      notification_tag_keys |-> <<>> ]

\* tag_config of handler
TagConfig(st) ==
    [ schedule_key   |-> st.tag_schedule_key,
      schedule_value |-> Some(st.tag_schedule_value),
      start_key      |-> st.tag_start_key,
      stop_key       |-> st.tag_stop_key,
      weekday_key    |-> st.tag_weekday_key ]

\* asg_config of handler
AsgConfig(st) ==
    [ min_key     |-> st.tag_asg_min_key,
      max_key     |-> st.tag_asg_max_key,
      desired_key |-> st.tag_asg_desired_key ]

\* _extract_notification_tags: "key=value" of the listed keys, joined by ", "
JoinPair(key, text, rest) ==
    IF text = <<>> THEN rest
    ELSE IF rest = <<>> THEN <<key, "=">> \o text
    ELSE <<key, "=">> \o text \o <<",", " ">> \o rest

RECURSIVE extract_notification_tags(_, _)
extract_notification_tags(tgs, keys) ==
    IF keys = <<>> THEN <<>>
    ELSE JoinPair(Head(keys),
                  IF Head(keys) \in DOMAIN tgs THEN Strip(tgs[Head(keys)]) ELSE <<>>,
                  extract_notification_tags(tgs, Tail(keys)))

\* _build_change: details is optional; None stands for a record without the key
build_change(action, resource_type, resource_id, tgs, notify_tag_keys, details) ==
    [ action        |-> action,
      resource_type |-> resource_type,
      resource_id   |-> resource_id,
      tag_summary   |-> extract_notification_tags(tgs, notify_tag_keys),
      details       |-> details ]

\* _candidate_tag_values: the value as set, lower-cased and upper-cased
candidate_tag_values(value) == { value, Lower(value), Upper(value) }

\* the filter of _collect_instances: the provider lists the compute instances
\* whose flag tag is one of the candidate values, or, when the required value
\* is blank, the instances that carry the flag tag
collect_instances(tgs, tag_key, tag_value) ==
    IF Strip(tag_value) # <<>>
    THEN tag_key \in DOMAIN tgs /\ tgs[tag_key] \in candidate_tag_values(tag_value)
    ELSE tag_key \in DOMAIN tgs

\* What one driver invocation did: whether it reached _evaluate_schedule and
\* with what result, the mutating provider call it issued (None when it
\* issued none), whether an error left the driver, and the Change Record it
\* returned (None when it returned None or raised).
NoAction(reached, sr) ==
    [reached |-> reached, should_run |-> sr, call |-> None,
     raised |-> FALSE, change |-> None]

\* a mutating call whose record is returned whether or not the call returns
Mutation_RecordWithoutCall(sr, call, call_ok, change) ==
    [reached |-> TRUE, should_run |-> sr, call |-> Some(call),
     raised |-> ~call_ok, change |-> Some(change)]

\* a mutating call: it returns (call_ok) and the driver returns the record,
\* or it raises and the error leaves the driver
Mutation(sr, call, call_ok, change) ==
    [reached |-> TRUE, should_run |-> sr, call |-> Some(call),
     raised |-> ~call_ok, change |-> IF call_ok THEN Some(change) ELSE None]

\* an error raised by a provider call made before the evaluation
Failed ==
    [reached |-> FALSE, should_run |-> None, call |-> None,
     raised |-> TRUE, change |-> None]

----------------------------------------------------------------------------
(* The resource drivers.  call_ok says whether the provider's mutating     *)
(* call returns without error; listed is the provider's answer to          *)
(* list_tags_for_resource.                                                 *)

\* DecideBinary with an undetermined evaluation taken for halt
DecideBinary_NoneIsHalt(sr, state, stop_state, start_call, stop_call, start_change, stop_change, call_ok) ==
    IF sr # None /\ sr[1] /\ state = "stopped"
    THEN Mutation(sr, start_call, call_ok, start_change)
    ELSE IF (sr = None \/ ~sr[1]) /\ state = stop_state
         THEN Mutation(sr, stop_call, call_ok, stop_change)
    ELSE NoAction(TRUE, sr)

\* DecideBinary stopping whatever the observed status is
DecideBinary_StopAnyStatus(sr, state, stop_state, start_call, stop_call, start_change, stop_change, call_ok) ==
    IF sr = None THEN NoAction(TRUE, sr)
    ELSE IF sr[1] /\ state = "stopped"
         THEN Mutation(sr, start_call, call_ok, start_change)
    ELSE IF ~sr[1]
         THEN Mutation(sr, stop_call, call_ok, stop_change)
    ELSE NoAction(TRUE, sr)

\* DecideBinary stopping every resource that is not yet stopped
DecideBinary_StopUnlessStopped(sr, state, stop_state, start_call, stop_call, start_change, stop_change, call_ok) ==
    IF sr = None THEN NoAction(TRUE, sr)
    ELSE IF sr[1] /\ state = "stopped"
         THEN Mutation(sr, start_call, call_ok, start_change)
    ELSE IF ~sr[1] /\ state # "stopped"
         THEN Mutation(sr, stop_call, call_ok, stop_change)
    ELSE NoAction(TRUE, sr)

\* the decision of a binary driver, once the tags are evaluated: start a
\* stopped resource that should run, stop one in stop_state that should not
DecideBinary(sr, state, stop_state, start_call, stop_call, start_change, stop_change, call_ok) ==
    IF sr = None THEN NoAction(TRUE, sr)
    ELSE IF sr[1] /\ state = "stopped"
         THEN Mutation(sr, start_call, call_ok, start_change)
    ELSE IF ~sr[1] /\ state = stop_state
         THEN Mutation(sr, stop_call, call_ok, stop_change)
    ELSE NoAction(TRUE, sr)

\* _handle_instance starting every instance that is not yet running
handle_instance_StartUnlessRunning(instance, tgs, config, now_minutes, now_token, notify_tag_keys, call_ok) ==
    DecideBinary(evaluate_schedule(tgs, config, now_minutes, now_token),
                 IF instance.State # "running" THEN "stopped" ELSE "running", "running",
                 [op |-> "start_instances", id |-> instance.InstanceId],
                 [op |-> "stop_instances", id |-> instance.InstanceId],
                 build_change("start", "ec2", instance.InstanceId, tgs,
                              notify_tag_keys, None),
                 build_change("stop", "ec2", instance.InstanceId, tgs,
                              notify_tag_keys, None),
                 call_ok)

\* _handle_instance
handle_instance(instance, tgs, config, now_minutes, now_token, notify_tag_keys, call_ok) ==
    DecideBinary(evaluate_schedule(tgs, config, now_minutes, now_token),
                 instance.State, "running",
                 [op |-> "start_instances", id |-> instance.InstanceId],
                 [op |-> "stop_instances", id |-> instance.InstanceId],
                 build_change("start", "ec2", instance.InstanceId, tgs,
                              notify_tag_keys, None),
                 build_change("stop", "ec2", instance.InstanceId, tgs,
                              notify_tag_keys, None),
                 call_ok)

\* _handle_rds_instance without the skip of cluster members
handle_rds_instance_MembersIncluded(instance, listed, config, now_minutes, now_token, notify_tag_keys, call_ok) ==
    IF instance.DBInstanceArn = None THEN NoAction(FALSE, None)
    ELSE IF ~listed.ok THEN Failed
    ELSE DecideBinary(evaluate_schedule(listed.tags, config, now_minutes, now_token),
                      instance.DBInstanceStatus, "available",
                      [op |-> "start_db_instance", id |-> instance.DBInstanceIdentifier],
                      [op |-> "stop_db_instance", id |-> instance.DBInstanceIdentifier],
                      build_change("start", "rds-instance",
                                   instance.DBInstanceIdentifier, listed.tags,
                                   notify_tag_keys, None),
                      build_change("stop", "rds-instance",
                                   instance.DBInstanceIdentifier, listed.tags,
                                   notify_tag_keys, None),
                      call_ok)

\* _handle_rds_instance
handle_rds_instance(instance, listed, config, now_minutes, now_token, notify_tag_keys, call_ok) ==
    IF instance.DBClusterIdentifier # None THEN NoAction(FALSE, None)
    ELSE IF instance.DBInstanceArn = None THEN NoAction(FALSE, None)
    ELSE IF ~listed.ok THEN Failed
    ELSE DecideBinary(evaluate_schedule(listed.tags, config, now_minutes, now_token),
                      instance.DBInstanceStatus, "available",
                      [op |-> "start_db_instance", id |-> instance.DBInstanceIdentifier],
                      [op |-> "stop_db_instance", id |-> instance.DBInstanceIdentifier],
                      build_change("start", "rds-instance",
                                   instance.DBInstanceIdentifier, listed.tags,
                                   notify_tag_keys, None),
                      build_change("stop", "rds-instance",
                                   instance.DBInstanceIdentifier, listed.tags,
                                   notify_tag_keys, None),
                      call_ok)

\* _handle_rds_cluster
handle_rds_cluster(cluster, listed, config, now_minutes, now_token, notify_tag_keys, call_ok) ==
    IF cluster.DBClusterArn = None THEN NoAction(FALSE, None)
    ELSE IF ~listed.ok THEN Failed
    ELSE DecideBinary(evaluate_schedule(listed.tags, config, now_minutes, now_token),
                      cluster.Status, "available",
                      [op |-> "start_db_cluster", id |-> cluster.DBClusterIdentifier],
                      [op |-> "stop_db_cluster", id |-> cluster.DBClusterIdentifier],
                      build_change("start", "rds-cluster", cluster.DBClusterIdentifier,
                                   listed.tags, notify_tag_keys, None),
                      build_change("stop", "rds-cluster", cluster.DBClusterIdentifier,
                                   listed.tags, notify_tag_keys, None),
                      call_ok)

\* one size of _asg_sizes: the value goes through str() and int()
SizeOf(v) == IF v = None THEN None ELSE parse_int(Some(TextOfInt(v[1])))

\* _asg_sizes
asg_sizes(group) ==
    [ MinSize         |-> SizeOf(group.MinSize),
      MaxSize         |-> SizeOf(group.MaxSize),
      DesiredCapacity |-> SizeOf(group.DesiredCapacity) ]

\* Fallback with zero in the place of the current value
Fallback_Zero(target, current) ==
    [key \in {"MinSize", "MaxSize", "DesiredCapacity"} |->
        IF target[key] = None THEN Some(0) ELSE target[key]]

\* a field the tag does not give falls back to the current one
Fallback(target, current) ==
    [key \in {"MinSize", "MaxSize", "DesiredCapacity"} |->
        IF target[key] = None THEN current[key] ELSE target[key]]

\* _build_asg_target with the desired capacity falling back to the current
\* maximum size
build_asg_target_DesiredFromMax(current, tgs, asg_keys) ==
    Fallback([ MinSize         |-> parse_int(Get(tgs, asg_keys.min_key)),
               MaxSize         |-> parse_int(Get(tgs, asg_keys.max_key)),
               DesiredCapacity |-> parse_int(Get(tgs, asg_keys.desired_key)) ],
             [current EXCEPT !.DesiredCapacity = current.MaxSize])

\* _build_asg_target
build_asg_target(current, tgs, asg_keys) ==
    Fallback([ MinSize         |-> parse_int(Get(tgs, asg_keys.min_key)),
               MaxSize         |-> parse_int(Get(tgs, asg_keys.max_key)),
               DesiredCapacity |-> parse_int(Get(tgs, asg_keys.desired_key)) ],
             current)

\* Clamp without the clamp from below
Clamp_UpperOnly(min_size, max_size, desired) ==
    IF desired > max_size THEN max_size ELSE desired

\* desired clamped into [min_size, max_size], first from below, then from above
Clamp(min_size, max_size, desired) ==
    IF (IF desired < min_size THEN min_size ELSE desired) > max_size THEN max_size
    ELSE IF desired < min_size THEN min_size
    ELSE desired

\* _sanitize_asg_target without the test of min_size against max_size
sanitize_asg_target_NoOrderTest(target) ==
    IF target.MinSize = None \/ target.MaxSize = None \/ target.DesiredCapacity = None
    THEN None
    ELSE IF target.MinSize[1] < 0 \/ target.MaxSize[1] < 0
            \/ target.DesiredCapacity[1] < 0
         THEN None
    ELSE Some([MinSize |-> target.MinSize[1], MaxSize |-> target.MaxSize[1],
               DesiredCapacity |-> Clamp(target.MinSize[1], target.MaxSize[1],
                                         target.DesiredCapacity[1])])

\* _sanitize_asg_target: None, or Some(the triple with desired clamped)
sanitize_asg_target(target) ==
    IF target.MinSize = None \/ target.MaxSize = None \/ target.DesiredCapacity = None
    THEN None
    ELSE IF target.MinSize[1] < 0 \/ target.MaxSize[1] < 0
            \/ target.DesiredCapacity[1] < 0
         THEN None
    ELSE IF target.MinSize[1] > target.MaxSize[1] THEN None
    ELSE Some([MinSize |-> target.MinSize[1], MaxSize |-> target.MaxSize[1],
               DesiredCapacity |-> Clamp(target.MinSize[1], target.MaxSize[1],
                                         target.DesiredCapacity[1])])

\* the detail text "min=<a> max=<b> desired=<c>"
ScaleDetails(a, b, c) ==
    <<"m","i","n","=">> \o TextOfInt(a) \o <<" ","m","a","x","=">> \o TextOfInt(b)
        \o <<" ","d","e","s","i","r","e","d","=">> \o TextOfInt(c)

\* the update_auto_scaling_group call
UpdateCall(name, mn, mx, d) ==
    [op |-> "update_auto_scaling_group", id |-> name, MinSize |-> mn, MaxSize |-> mx,
     DesiredCapacity |-> d]

\* ScaleTo comparing the desired capacity only
ScaleTo_DesiredOnly(sr, target, current, name, tgs, notify_tag_keys, call_ok) ==
    IF target = None THEN NoAction(TRUE, sr)
    ELSE IF target[1].DesiredCapacity = current.DesiredCapacity[1]
         THEN NoAction(TRUE, sr)
    ELSE Mutation(sr,
             UpdateCall(name, target[1].MinSize, target[1].MaxSize,
                        target[1].DesiredCapacity),
             call_ok,
             build_change("scale", "asg", name, tgs, notify_tag_keys,
                          Some(ScaleDetails(target[1].MinSize, target[1].MaxSize,
                                            target[1].DesiredCapacity))))

\* the run branch of _handle_autoscaling_group, for the sanitized target
ScaleTo(sr, target, current, name, tgs, notify_tag_keys, call_ok) ==
    IF target = None THEN NoAction(TRUE, sr)
    ELSE IF target[1].MinSize = current.MinSize[1]
            /\ target[1].MaxSize = current.MaxSize[1]
            /\ target[1].DesiredCapacity = current.DesiredCapacity[1]
         THEN NoAction(TRUE, sr)
    ELSE Mutation(sr,
             UpdateCall(name, target[1].MinSize, target[1].MaxSize,
                        target[1].DesiredCapacity),
             call_ok,
             build_change("scale", "asg", name, tgs, notify_tag_keys,
                          Some(ScaleDetails(target[1].MinSize, target[1].MaxSize,
                                            target[1].DesiredCapacity))))

\* ScaleToZero taking a desired capacity of zero for a group at zero
ScaleToZero_DesiredOnly(sr, current, name, tgs, notify_tag_keys, call_ok) ==
    IF current.DesiredCapacity[1] = 0
    THEN NoAction(TRUE, sr)
    ELSE Mutation(sr, UpdateCall(name, 0, 0, 0), call_ok,
             build_change("scale", "asg", name, tgs, notify_tag_keys,
                          Some(<<"m","i","n","=","0"," ","m","a","x","=","0"," ",
                                 "d","e","s","i","r","e","d","=","0">>)))

\* the halt branch of _handle_autoscaling_group
ScaleToZero(sr, current, name, tgs, notify_tag_keys, call_ok) ==
    IF current.MinSize[1] = 0 /\ current.MaxSize[1] = 0
       /\ current.DesiredCapacity[1] = 0
    THEN NoAction(TRUE, sr)
    ELSE Mutation(sr, UpdateCall(name, 0, 0, 0), call_ok,
             build_change("scale", "asg", name, tgs, notify_tag_keys,
                          Some(<<"m","i","n","=","0"," ","m","a","x","=","0"," ",
                                 "d","e","s","i","r","e","d","=","0">>)))

\* DecideGroup asking for the capacity tags in the run state only
DecideGroup_HaltSkipsTagTest(sr, current, name, tgs, asg_keys, notify_tag_keys, call_ok) ==
    IF sr = None THEN NoAction(TRUE, sr)
    ELSE IF current.MinSize = None \/ current.MaxSize = None
            \/ current.DesiredCapacity = None
         THEN NoAction(TRUE, sr)
    ELSE IF ~sr[1] THEN ScaleToZero(sr, current, name, tgs, notify_tag_keys, call_ok)
    ELSE IF Get(tgs, asg_keys.min_key) = None \/ Get(tgs, asg_keys.max_key) = None
            \/ Get(tgs, asg_keys.desired_key) = None
         THEN NoAction(TRUE, sr)
    ELSE ScaleTo(sr, sanitize_asg_target(build_asg_target(current, tgs, asg_keys)),
                 current, name, tgs, notify_tag_keys, call_ok)

\* _handle_autoscaling_group, once the tags are evaluated and the sizes read
DecideGroup(sr, current, name, tgs, asg_keys, notify_tag_keys, call_ok) ==
    IF sr = None THEN NoAction(TRUE, sr)
    ELSE IF current.MinSize = None \/ current.MaxSize = None
            \/ current.DesiredCapacity = None
         THEN NoAction(TRUE, sr)
    ELSE IF Get(tgs, asg_keys.min_key) = None \/ Get(tgs, asg_keys.max_key) = None
            \/ Get(tgs, asg_keys.desired_key) = None
         THEN NoAction(TRUE, sr)
    ELSE IF sr[1]
         THEN ScaleTo(sr, sanitize_asg_target(build_asg_target(current, tgs, asg_keys)),
                      current, name, tgs, notify_tag_keys, call_ok)
    ELSE ScaleToZero(sr, current, name, tgs, notify_tag_keys, call_ok)

\* _handle_autoscaling_group
handle_autoscaling_group(group, tgs, tag_config, asg_keys, now_minutes, now_token, notify_tag_keys, call_ok) ==
    IF group.AutoScalingGroupName = None THEN NoAction(FALSE, None)
    ELSE DecideGroup(evaluate_schedule(tgs, tag_config, now_minutes, now_token),
                     asg_sizes(group), group.AutoScalingGroupName[1], tgs, asg_keys,
                     notify_tag_keys, call_ok)

----------------------------------------------------------------------------
(* Inputs: the tag values, time contexts and resource descriptors the      *)
(* provider may report.                                                    *)

MaxCalls == 2

MaxTimeLen == 3

MaxFlagLen == 4

MaxWeekdayLen == 5

\* every text of at most n characters drawn from chars
AllTexts(chars, n) == UNION { [1..k -> chars] : k \in 0..n }

EmptyDict == [k \in {} |-> <<>>]

\* a dictionary entry, or nothing when the value is None
Entry(key, value) == IF value = None THEN EmptyDict ELSE (key :> value[1])

FlagTags == { None, Some(<<" ","t","R","U","E">>), Some(<<"T","R","U","E">>) }

WeekdayTags ==
    { None,
      Some(<<"M","o","n",","," ","T","U","E"," ",",","w","e","d">>),
      Some(<<"s","a","t">>) }

StartTags ==
    { None, Some(<<"9">>), Some(<<"2","3",":","0","0">>), Some(<<"2","4",":","0","0">>) }

StopTags ==
    { None, Some(<<"1","8",":","0","0">>), Some(<<"6">>), Some(<<"x">>) }

ScheduleTagSets ==
    { Entry("Schedule", f) @@ Entry("Schedule_Weekend", w)
        @@ Entry("Schedule_Start", s) @@ Entry("Schedule_Stop", e) :
      f \in FlagTags, w \in WeekdayTags, s \in StartTags, e \in StopTags }

CapacityTagSets ==
    { Entry("Schedule_Asg_Min", <<mn>>) @@ Entry("Schedule_Asg_Max", <<mx>>)
        @@ Entry("Schedule_Asg_Desired", d) :
      mn \in { <<"2">> }, mx \in { <<"8">> }, d \in { None, Some(<<"1">>) } }

\* the local time of the run: hour, minute, day of the week (1 = Monday)
Clocks == { <<8, 59>>, <<9, 0>>, <<18, 0>>, <<23, 30>> }

Days == { 3, 6 }

\* now_minutes and now_token as handler derives them from the local time
TimeContext(hour, minute, day) ==
    [now_minutes |-> hour * 60 + minute, now_token |-> weekday_token(day)]

Ec2States == { "pending", "running", "stopping", "stopped", "terminated" }

RdsStates == { "available", "stopped", "starting", "stopping" }

Ec2Instances ==
    { [kind |-> "ec2", InstanceId |-> "i-1", State |-> st] : st \in Ec2States }

RdsInstances ==
    { [kind |-> "rds-instance", DBInstanceIdentifier |-> "db-1", DBInstanceArn |-> m[1],
       DBClusterIdentifier |-> m[2], DBInstanceStatus |-> st] :
      st \in RdsStates,
      m \in { <<Some("arn:db-1"), None>>, <<Some("arn:db-1"), Some("c-1")>>,
              <<None, None>> } }

RdsClusters ==
    { [kind |-> "rds-cluster", DBClusterIdentifier |-> "c-1", DBClusterArn |-> arn,
       Status |-> st] :
      st \in RdsStates, arn \in { Some("arn:c-1") } }
    \cup { [kind |-> "rds-cluster", DBClusterIdentifier |-> "c-1", DBClusterArn |-> None,
            Status |-> "stopped"] }

Group(name, mn, mx, d) ==
    [kind |-> "asg", AutoScalingGroupName |-> name, MinSize |-> mn, MaxSize |-> mx,
     DesiredCapacity |-> d]

Groups ==
    { Group(Some("g-1"), Some(0), Some(0), Some(0)),
      Group(Some("g-1"), Some(1), Some(10), Some(1)),
      Group(Some("g-1"), Some(1), Some(10), None),
      Group(None, Some(1), Some(10), Some(1)) }

NotInvoked == [seen |-> None, out |-> NoAction(FALSE, None)]

NoVerdict == [done |-> FALSE, result |-> None]

NoWindow == [s |-> 0, e |-> 0, n |-> 0, done |-> FALSE, out |-> FALSE]

\* a run of handler before its first statement, for the configured accounts
\* and the resources the provider holds for them
RunOf(zoneinfo, accounts, world) ==
    [ pc |-> "start", zoneinfo |-> zoneinfo, accounts |-> accounts, world |-> world,
      account |-> 1, kind |-> 1, listed |-> FALSE, pos |-> 1,
      changes |-> <<>>, summary |-> <<>>, result |-> None, error |-> None,
      assumed |-> <<>>, enumerated |-> <<>>, calls |-> <<>>, sent |-> <<>> ]

NoRun == RunOf(TRUE, None, EmptyDict)

----------------------------------------------------------------------------
(* Repeated invocations of a driver on one resource, at one time context.  *)

\* tag sets whose flag and weekday tags pass on a Wednesday and whose start
\* or stop tag is any short text over TimeChars
TimeChars == { "2", "4", ":", " ", "-" }

TimeTagSets ==
    { Entry("Schedule", Some(<<"T","r","u","e">>))
        @@ Entry("Schedule_Weekend", Some(<<"w","e","d">>))
        @@ Entry("Schedule_Start", Some(p[1])) @@ Entry("Schedule_Stop", Some(p[2])) :
      p \in ({ <<"9">> } \X AllTexts(TimeChars, MaxTimeLen))
            \cup (AllTexts(TimeChars, MaxTimeLen) \X { <<"1","8",":","0","0">> }) }

TimeResources ==
    { r \in Ec2Instances : r.State = "running" }
    \cup { r \in RdsInstances : r.DBInstanceArn # None /\ r.DBClusterIdentifier = None
                                /\ r.DBInstanceStatus = "stopped" }

Init ==
    /\ settings = load_settings(EmptyDict)
    /\ \/ /\ \E c \in Clocks, d \in Days : now = TimeContext(c[1], c[2], d)
          /\ res \in Ec2Instances \cup RdsInstances \cup RdsClusters
          /\ tags \in ScheduleTagSets
          /\ res.kind = "ec2" =>
                collect_instances(tags, settings.tag_schedule_key,
                                  settings.tag_schedule_value)
       \/ /\ \E c \in Clocks, d \in Days : now = TimeContext(c[1], c[2], d)
          /\ res \in Groups
          /\ \E st \in ScheduleTagSets, ct \in CapacityTagSets : tags = st @@ ct
       \/ /\ \E c \in { <<9, 0>>, <<23, 30>> } : now = TimeContext(c[1], c[2], 3)
          /\ res \in TimeResources
          /\ tags \in TimeTagSets
    /\ last = NotInvoked
    /\ issued = 0
    /\ succeeded = 0
    /\ verdict = NoVerdict
    /\ win = NoWindow
    /\ run = NoRun

\* the provider's state after a mutating call that returned without error
AfterCall(r, call) ==
    IF call.op = "start_instances" THEN [r EXCEPT !.State = "pending"]
    ELSE IF call.op = "stop_instances" THEN [r EXCEPT !.State = "stopping"]
    ELSE IF call.op = "start_db_instance" THEN [r EXCEPT !.DBInstanceStatus = "starting"]
    ELSE IF call.op = "stop_db_instance" THEN [r EXCEPT !.DBInstanceStatus = "stopping"]
    ELSE IF call.op = "start_db_cluster" THEN [r EXCEPT !.Status = "starting"]
    ELSE IF call.op = "stop_db_cluster" THEN [r EXCEPT !.Status = "stopping"]
    ELSE [r EXCEPT !.MinSize = Some(call.MinSize), !.MaxSize = Some(call.MaxSize),
                   !.DesiredCapacity = Some(call.DesiredCapacity)]

\* one driver invocation with outcome out: the counters, the provider's state
Invoked(out) ==
    /\ out.call # None => issued < MaxCalls
    /\ last' = [seen |-> Some(res), out |-> out]
    /\ issued' = IF out.call # None THEN issued + 1 ELSE issued
    /\ succeeded' = IF out.call # None /\ ~out.raised THEN succeeded + 1 ELSE succeeded
    /\ res' = IF out.call # None /\ ~out.raised THEN AfterCall(res, out.call[1]) ELSE res
    /\ UNCHANGED <<settings, now, tags, verdict, win, run>>

HandleInstance ==
    /\ res.kind = "ec2"
    /\ \E call_ok \in BOOLEAN :
          Invoked(handle_instance(res, tags, TagConfig(settings), now.now_minutes,
                                  now.now_token, settings.notification_tag_keys, call_ok))

HandleRdsInstance ==
    /\ res.kind = "rds-instance"
    /\ \E call_ok \in BOOLEAN, list_ok \in BOOLEAN :
          Invoked(handle_rds_instance(res, [ok |-> list_ok, tags |-> tags],
                                      TagConfig(settings), now.now_minutes, now.now_token,
                                      settings.notification_tag_keys, call_ok))

HandleRdsCluster ==
    /\ res.kind = "rds-cluster"
    /\ \E call_ok \in BOOLEAN, list_ok \in BOOLEAN :
          Invoked(handle_rds_cluster(res, [ok |-> list_ok, tags |-> tags],
                                     TagConfig(settings), now.now_minutes, now.now_token,
                                     settings.notification_tag_keys, call_ok))

HandleAutoscalingGroup ==
    /\ res.kind = "asg"
    /\ \E call_ok \in BOOLEAN :
          Invoked(handle_autoscaling_group(res, tags, TagConfig(settings),
                                           AsgConfig(settings), now.now_minutes,
                                           now.now_token, settings.notification_tag_keys,
                                           call_ok))

\* the provider completes a transition it has begun
Settled(st) ==
    IF st = "pending" \/ st = "starting" THEN "running"
    ELSE IF st = "stopping" THEN "stopped"
    ELSE st

ProviderSettles ==
    /\ \/ /\ res.kind = "ec2"
          /\ res.State \in {"pending", "stopping"}
          /\ res' = [res EXCEPT !.State = Settled(res.State)]
       \/ /\ res.kind = "rds-instance"
          /\ res.DBInstanceStatus \in {"starting", "stopping"}
          /\ res' = [res EXCEPT !.DBInstanceStatus =
                        IF res.DBInstanceStatus = "starting" THEN "available"
                        ELSE "stopped"]
       \/ /\ res.kind = "rds-cluster"
          /\ res.Status \in {"starting", "stopping"}
          /\ res' = [res EXCEPT !.Status =
                        IF res.Status = "starting" THEN "available" ELSE "stopped"]
    /\ UNCHANGED <<settings, now, tags, last, issued, succeeded, verdict, win, run>>

Next ==
    \/ HandleInstance
    \/ HandleRdsInstance
    \/ HandleRdsCluster
    \/ HandleAutoscalingGroup
    \/ ProviderSettles

Spec == Init /\ [][Next]_vars

----------------------------------------------------------------------------
(* _evaluate_schedule alone, on tag sets whose flag tag or weekday tag is  *)
(* any short text.                                                         *)

FlagChars == { "o", "N", "n", " " }

WeekdayChars == { "w", "E", "d", ",", " " }

\* the environments of the run: TAG_SCHEDULE_VALUE unset, empty, blank or set
ScheduleValueEnvs ==
    { EmptyDict } \cup
    { ("TAG_SCHEDULE_VALUE" :> t) : t \in { <<>>, <<" ">>, <<" ","o","N"," ">> } }

FlagFocus ==
    { Entry("Schedule", f) @@ Entry("Schedule_Weekend", Some(<<"w","e","d">>))
        @@ Entry("Schedule_Start", Some(<<"9">>))
        @@ Entry("Schedule_Stop", Some(<<"1","8",":","0","0">>)) :
      f \in { None, Some(<<"t","r","u","E"," ">>), Some(<<"T","r","u">>) }
            \cup { Some(t) : t \in AllTexts(FlagChars, MaxFlagLen) } }

WeekdayFocus ==
    { Entry("Schedule", Some(<<"T","r","u","e">>)) @@ Entry("Schedule_Weekend", w)
        @@ Entry("Schedule_Start", Some(<<"9">>)) @@ Entry("Schedule_Stop", e) :
      w \in { None } \cup { Some(t) : t \in AllTexts(WeekdayChars, MaxWeekdayLen) },
      e \in { Some(<<"1","8",":","0","0">>), Some(<<"x">>) } }

\* weekday lists in mixed case with blanks around the entries and empty
\* entries, evaluated on each day of the week
WeekdayExamples ==
    { <<"M","o","n",","," ","T","U","E"," ",",","w","e","d">>,
      <<" ","m","o","n",",",",","T","u","e",","," ","W","E","D"," ",",">>,
      <<"M","O","N",",","T","U","E",",","W","E","D">> }

WeekdayExampleTags ==
    { Entry("Schedule", Some(<<"T","r","u","e">>)) @@ Entry("Schedule_Weekend", Some(w))
        @@ Entry("Schedule_Start", Some(<<"9">>))
        @@ Entry("Schedule_Stop", Some(<<"1","8",":","0","0">>)) :
      w \in WeekdayExamples }

EvalInit ==
    /\ \/ /\ \E env \in ScheduleValueEnvs : settings = load_settings(env)
          /\ tags \in FlagFocus
          /\ \E c \in { <<9, 0>>, <<23, 30>> }, d \in Days :
                now = TimeContext(c[1], c[2], d)
       \/ /\ settings = load_settings(EmptyDict)
          /\ tags \in WeekdayFocus
          /\ \E c \in { <<9, 0>>, <<23, 30>> }, d \in Days :
                now = TimeContext(c[1], c[2], d)
       \/ /\ settings = load_settings(EmptyDict)
          /\ tags \in WeekdayExampleTags
          /\ \E d \in 1..7 : now = TimeContext(9, 0, d)
    /\ verdict = NoVerdict
    /\ res = Group(None, None, None, None)
    /\ last = NotInvoked
    /\ issued = 0
    /\ succeeded = 0
    /\ win = NoWindow
    /\ run = NoRun

Evaluate ==
    /\ ~verdict.done
    /\ verdict' = [done |-> TRUE,
                   result |-> evaluate_schedule(tags, TagConfig(settings),
                                                now.now_minutes, now.now_token)]
    /\ UNCHANGED <<settings, now, tags, res, last, issued, succeeded, win, run>>

EvalNext == Evaluate

EvalSpec == EvalInit /\ [][EvalNext]_vars

----------------------------------------------------------------------------
(* _should_run alone, on minutes of the day.                               *)

LastMinute == 23 * 60 + 59

WindowPoints == { 0, 1, 359, 360, 720, 1379, 1380, LastMinute }

WindowInit ==
    /\ \E s \in WindowPoints, e \in WindowPoints, n \in 0..LastMinute :
          win = [s |-> s, e |-> e, n |-> n, done |-> FALSE, out |-> FALSE]
    /\ settings = load_settings(EmptyDict)
    /\ now = TimeContext(0, 0, 1)
    /\ tags = EmptyDict
    /\ verdict = NoVerdict
    /\ res = Group(None, None, None, None)
    /\ last = NotInvoked
    /\ issued = 0
    /\ succeeded = 0
    /\ run = NoRun

ShouldRun ==
    /\ ~win.done
    /\ win' = [win EXCEPT !.done = TRUE, !.out = should_run(win.n, win.s, win.e)]
    /\ UNCHANGED <<settings, now, tags, res, last, issued, succeeded, verdict, run>>

WindowNext == ShouldRun

WindowSpec == WindowInit /\ [][WindowNext]_vars

----------------------------------------------------------------------------
(* _handle_autoscaling_group alone, on the current sizes and capacity tag  *)
(* values of a group scheduled for Wednesday 9 to 18.                      *)

MaxCapacity == 2

\* the current sizes the provider reports: 0 <= min <= desired <= max
CurrentSizes ==
    { t \in (0..MaxCapacity) \X (0..MaxCapacity) \X (0..MaxCapacity) :
        t[1] <= t[3] /\ t[3] <= t[2] }

\* the value of a capacity tag: absent, not numeric, negative or a size
CapacityTexts ==
    { None, Some(<<"x">>), Some(<<"-","1">>) }
        \cup { Some(TextOfInt(n)) : n \in 0..MaxCapacity }

CapacityTags(mn, mx, d) ==
    Entry("Schedule_Asg_Min", mn) @@ Entry("Schedule_Asg_Max", mx)
        @@ Entry("Schedule_Asg_Desired", d)

AsgScheduleTags ==
    Entry("Schedule", Some(<<"T","r","u","e">>))
        @@ Entry("Schedule_Weekend", Some(<<"w","e","d">>))
        @@ Entry("Schedule_Start", Some(<<"9">>))
        @@ Entry("Schedule_Stop", Some(<<"1","8",":","0","0">>))

\* groups and capacity tags with larger sizes
AsgExamples ==
    { << Group(Some("g-1"), Some(1), Some(5), Some(2)),
         CapacityTags(Some(<<"3">>), Some(<<"2">>), Some(<<"4">>)) >>,
      << Group(Some("g-1"), Some(1), Some(10), Some(1)),
         CapacityTags(Some(<<"2">>), Some(<<"8">>), None) >>,
      << Group(Some("g-1"), Some(1), Some(10), Some(1)),
         CapacityTags(Some(<<"2">>), Some(<<"8">>), Some(<<"x">>)) >>,
      << Group(Some("g-1"), Some(1), Some(10), None),
         CapacityTags(Some(<<"2">>), Some(<<"8">>), Some(<<"1">>)) >> }

AsgInit ==
    /\ settings = load_settings(EmptyDict)
    /\ \E c \in { <<9, 0>>, <<18, 0>> }, d \in Days : now = TimeContext(c[1], c[2], d)
    /\ \/ /\ \E t \in CurrentSizes :
                res = Group(Some("g-1"), Some(t[1]), Some(t[2]), Some(t[3]))
          /\ \E mn \in CapacityTexts, mx \in CapacityTexts, d \in CapacityTexts :
                tags = AsgScheduleTags @@ CapacityTags(mn, mx, d)
       \/ \E x \in AsgExamples : res = x[1] /\ tags = AsgScheduleTags @@ x[2]
    /\ last = NotInvoked
    /\ issued = 0
    /\ succeeded = 0
    /\ verdict = NoVerdict
    /\ win = NoWindow
    /\ run = NoRun

AsgNext == HandleAutoscalingGroup

AsgSpec == AsgInit /\ [][AsgNext]_vars

----------------------------------------------------------------------------
(* One run of handler over the configured accounts.  The provider holds,   *)
(* for every account and resource kind, the list of descriptors with their *)
(* tags; every provider call and every webhook post may fail.              *)

\* the zone names ZoneInfo resolves
KnownZones == { DefaultTimezone, <<"U","T","C">> }

\* the order in which handler goes through the resource kinds of an account
Kinds == <<"ec2", "rds-instance", "rds-cluster", "asg">>

\* the enable flags with the database clusters under the compute flag
Enabled_ClustersFollowCompute(st, kind) ==
    IF kind \in {"ec2", "rds-cluster"} THEN st.enable_ec2
    ELSE IF kind = "asg" THEN st.enable_asg
    ELSE st.enable_rds

\* the enable flag handler asks for a kind
Enabled(st, kind) ==
    IF kind = "ec2" THEN st.enable_ec2
    ELSE IF kind = "asg" THEN st.enable_asg
    ELSE st.enable_rds

\* an error leaves handler: the run ends without a result
Abort(rn, reason, call) ==
    [rn EXCEPT !.pc = "failed", !.error = Some([reason |-> reason, call |-> call])]

\* handler with an unresolvable timezone replaced by UTC
handler_prologue_FallsBackToUtc(rn, st) ==
    IF ~rn.zoneinfo THEN Abort(rn, "ZoneInfo not available", None)
    ELSE IF rn.accounts = None THEN Abort(rn, "ACCOUNTS_JSON must be valid JSON", None)
    ELSE [rn EXCEPT !.pc = "account"]

\* handler up to the loop over the accounts
handler_prologue(rn, st) ==
    IF ~rn.zoneinfo THEN Abort(rn, "ZoneInfo not available", None)
    ELSE IF st.timezone \notin KnownZones THEN Abort(rn, "Failed to load timezone", None)
    ELSE IF rn.accounts = None THEN Abort(rn, "ACCOUNTS_JSON must be valid JSON", None)
    ELSE [rn EXCEPT !.pc = "account"]

\* _validate_account
validate_account(account) ==
    account.account_id # None /\ account.region # None /\ account.iam_role # None

\* the head of the loop body: _validate_account, _assume_role, changes = []
begin_account(rn, account, assume_ok) ==
    IF ~validate_account(account)
    THEN Abort(rn, "Account entry missing required field", None)
    ELSE IF ~assume_ok THEN Abort(rn, "provider", Some([op |-> "assume_role"]))
    ELSE [rn EXCEPT !.pc = "kinds", !.kind = 1, !.listed = FALSE, !.pos = 1,
                    !.changes = <<>>,
                    !.assumed = Append(@, account.account_id[1])]

\* what the provider lists for an account and a kind; the compute instances
\* go through the tag filter of _collect_instances
ListingOf(resources, kind, st) ==
    IF kind = "ec2"
    THEN LET listed(r) == collect_instances(r.tags, st.tag_schedule_key,
                                            st.tag_schedule_value)
         IN  SelectSeq(resources, listed)
    ELSE resources

Listing(rn, st) ==
    ListingOf(rn.world[rn.accounts[1][rn.account].account_id[1]][Kinds[rn.kind]],
              Kinds[rn.kind], st)

\* the enumeration of a kind: the paginator's call returns or raises
enumerate(rn, enum_ok) ==
    IF enum_ok
    THEN [rn EXCEPT !.listed = TRUE,
                    !.enumerated = Append(@, <<rn.account, Kinds[rn.kind]>>)]
    ELSE Abort(rn, "provider", Some([op |-> "describe", kind |-> Kinds[rn.kind]]))

\* the loop of a kind is over, or the kind is not enabled: on to the next
\* kind, and after the last one to the notification
next_kind(rn) ==
    IF rn.kind < Len(Kinds)
    THEN [rn EXCEPT !.kind = @ + 1, !.listed = FALSE, !.pos = 1]
    ELSE [rn EXCEPT !.pc = "notify"]

CallsAfter(rn, out) ==
    IF out.call = None THEN rn.calls
    ELSE Append(rn.calls, [account |-> rn.account, call |-> out.call[1]])

\* the loop body putting the newest record first
after_driver_NewestFirst(rn, out) ==
    IF out.raised
    THEN [Abort(rn, "provider", out.call) EXCEPT !.calls = CallsAfter(rn, out)]
    ELSE [rn EXCEPT !.pos = @ + 1, !.calls = CallsAfter(rn, out),
                    !.changes = IF out.change = None THEN @
                                ELSE <<out.change[1]>> \o @]

\* the loop body of a kind: the driver's error leaves handler, its record is
\* appended to the account's changes
after_driver(rn, out) ==
    IF out.raised
    THEN [Abort(rn, "provider", out.call) EXCEPT !.calls = CallsAfter(rn, out)]
    ELSE [rn EXCEPT !.pos = @ + 1, !.calls = CallsAfter(rn, out),
                    !.changes = IF out.change = None THEN @
                                ELSE Append(@, out.change[1])]

Channels == <<"teams", "slack", "telegram">>

\* the test each of _send_teams, _send_slack and _send_telegram starts with
Configured(account, channel) ==
    IF channel = "teams" THEN account.teams_webhook # None
    ELSE IF channel = "slack" THEN account.slack_webhook # None
    ELSE account.telegram_bot_token # None /\ account.telegram_chat_id # None

SendsOf(channels, changes) ==
    [i \in 1..Len(channels) |-> [channel |-> channels[i], changes |-> changes]]

\* _maybe_send_notifications sending whatever the list holds
maybe_send_notifications_AlwaysSends(account, changes) ==
    LET configured(c) == Configured(account, c)
    IN  SendsOf(SelectSeq(Channels, configured), changes)

\* _maybe_send_notifications: the posts it makes, in order, each built from
\* the whole list
maybe_send_notifications(account, changes) ==
    IF changes = <<>> THEN <<>>
    ELSE LET configured(c) == Configured(account, c)
         IN  SendsOf(SelectSeq(Channels, configured), changes)

SentAfter(rn, sends) ==
    rn.sent \o [i \in 1..Len(sends) |->
                   [account |-> rn.account, channel |-> sends[i].channel,
                    changes |-> sends[i].changes]]

\* the tail of the loop body: the posts are made up to the one that fails
\* (fail_at, 0 for none), then the account goes into the summary
notify(rn, sends, fail_at) ==
    IF fail_at > 0
    THEN [Abort(rn, "post", None) EXCEPT !.sent = SentAfter(rn, SubSeq(sends, 1, fail_at))]
    ELSE [rn EXCEPT !.pc = "account", !.account = @ + 1,
                    !.sent = SentAfter(rn, sends),
                    !.summary = Append(@, [account |-> rn.accounts[1][rn.account].account_id,
                                           changes |-> rn.changes])]

\* the resources of the runs
Resource(desc, tgs) == [desc |-> desc, tags |-> tgs]

SaturdayTags ==
    Entry("Schedule", Some(<<"T","r","u","e">>))
        @@ Entry("Schedule_Weekend", Some(<<"s","a","t">>))
        @@ Entry("Schedule_Start", Some(<<"9">>))
        @@ Entry("Schedule_Stop", Some(<<"1","8",":","0","0">>))

Worlds ==
    ("111" :>
        [k \in {"ec2", "rds-instance", "rds-cluster", "asg"} |->
            IF k = "ec2"
            THEN << Resource([kind |-> "ec2", InstanceId |-> "i-1", State |-> "stopped"],
                             AsgScheduleTags),
                    Resource([kind |-> "ec2", InstanceId |-> "i-3", State |-> "stopped"],
                             EmptyDict),
                    Resource([kind |-> "ec2", InstanceId |-> "i-2", State |-> "running"],
                             AsgScheduleTags) >>
            ELSE IF k = "rds-instance"
            THEN << Resource([kind |-> "rds-instance", DBInstanceIdentifier |-> "db-1",
                              DBInstanceArn |-> Some("arn:db-1"),
                              DBClusterIdentifier |-> None,
                              DBInstanceStatus |-> "stopped"], AsgScheduleTags),
                    Resource([kind |-> "rds-instance", DBInstanceIdentifier |-> "db-2",
                              DBInstanceArn |-> Some("arn:db-2"),
                              DBClusterIdentifier |-> Some("c-1"),
                              DBInstanceStatus |-> "available"], AsgScheduleTags) >>
            ELSE IF k = "rds-cluster"
            THEN << Resource([kind |-> "rds-cluster", DBClusterIdentifier |-> "c-1",
                              DBClusterArn |-> Some("arn:c-1"), Status |-> "available"],
                             AsgScheduleTags) >>
            ELSE << Resource(Group(Some("g-1"), Some(1), Some(2), Some(1)),
                             AsgScheduleTags
                                @@ CapacityTags(Some(<<"1">>), Some(<<"2">>),
                                                Some(<<"2">>))) >>])
    @@ ("222" :>
        [k \in {"ec2", "rds-instance", "rds-cluster", "asg"} |->
            IF k = "ec2"
            THEN << Resource([kind |-> "ec2", InstanceId |-> "i-9", State |-> "running"],
                             SaturdayTags) >>
            ELSE << >>])
    @@ ("333" :> [k \in {"ec2", "rds-instance", "rds-cluster", "asg"} |-> << >>])

Account(id, role, teams, slack, token, chat) ==
    [account_id |-> Some(id), region |-> Some("r-1"), iam_role |-> role,
     teams_webhook |-> teams, slack_webhook |-> slack,
     telegram_bot_token |-> token, telegram_chat_id |-> chat]

FirstAccount == Account("111", Some("role"), Some("t"), Some("s"), None, None)

QuietAccount == Account("222", Some("role"), None, None, Some("b"), Some("c"))

BadAccount == Account("333", None, None, None, None, None)

\* ACCOUNTS_JSON: not valid (None), or the list of the account entries
AccountLists ==
    { None, Some(<< >>), Some(<<FirstAccount>>), Some(<<QuietAccount, FirstAccount>>),
      Some(<<FirstAccount, QuietAccount>>), Some(<<FirstAccount, BadAccount>>) }

\* the environments of the runs: the timezone and the three enable flags
RunEnvs ==
    { Entry("TIMEZONE", tz) @@ Entry("ENABLE_EC2", e) @@ Entry("ENABLE_RDS", r)
        @@ Entry("ENABLE_ASG", a) :
      tz \in { None, Some(<<"U","T","C">>), Some(<<" ">>),
               Some(<<"M","a","r","s","/","P","h","o","b","o","s">>) },
      e \in { None, Some(<<"0">>) },
      r \in { None, Some(<<" ","Y","e","s"," ">>) },
      a \in { None, Some(<<"t","r","u","e">>) } }

RunInit ==
    /\ \E env \in RunEnvs : settings = load_settings(env)
    /\ \E c \in { <<9, 0>>, <<18, 0>> } : now = TimeContext(c[1], c[2], 3)
    /\ \E zoneinfo \in BOOLEAN, accounts \in AccountLists :
          run = RunOf(zoneinfo, accounts, Worlds)
    /\ tags = EmptyDict
    /\ res = Group(None, None, None, None)
    /\ last = NotInvoked
    /\ issued = 0
    /\ succeeded = 0
    /\ verdict = NoVerdict
    /\ win = NoWindow

RunStep(rn) ==
    /\ run' = rn
    /\ UNCHANGED <<settings, now, tags, res, last, issued, succeeded, verdict, win>>

Start ==
    /\ run.pc = "start"
    /\ RunStep(handler_prologue(run, settings))

BeginAccount ==
    /\ run.pc = "account"
    /\ run.account <= Len(run.accounts[1])
    /\ \E assume_ok \in BOOLEAN :
          RunStep(begin_account(run, run.accounts[1][run.account], assume_ok))

Enumerate ==
    /\ run.pc = "kinds"
    /\ Enabled(settings, Kinds[run.kind])
    /\ ~run.listed
    /\ \E enum_ok \in BOOLEAN : RunStep(enumerate(run, enum_ok))

AtResource(kind) ==
    /\ run.pc = "kinds"
    /\ Kinds[run.kind] = kind
    /\ run.listed
    /\ run.pos <= Len(Listing(run, settings))

RunInstance ==
    /\ AtResource("ec2")
    /\ \E call_ok \in BOOLEAN :
          RunStep(after_driver(run,
              handle_instance(Listing(run, settings)[run.pos].desc,
                              Listing(run, settings)[run.pos].tags,
                              TagConfig(settings), now.now_minutes, now.now_token,
                              settings.notification_tag_keys, call_ok)))

RunRdsInstance ==
    /\ AtResource("rds-instance")
    /\ \E call_ok \in BOOLEAN, list_ok \in BOOLEAN :
          RunStep(after_driver(run,
              handle_rds_instance(Listing(run, settings)[run.pos].desc,
                                  [ok |-> list_ok,
                                   tags |-> Listing(run, settings)[run.pos].tags],
                                  TagConfig(settings), now.now_minutes, now.now_token,
                                  settings.notification_tag_keys, call_ok)))

RunRdsCluster ==
    /\ AtResource("rds-cluster")
    /\ \E call_ok \in BOOLEAN, list_ok \in BOOLEAN :
          RunStep(after_driver(run,
              handle_rds_cluster(Listing(run, settings)[run.pos].desc,
                                 [ok |-> list_ok,
                                  tags |-> Listing(run, settings)[run.pos].tags],
                                 TagConfig(settings), now.now_minutes, now.now_token,
                                 settings.notification_tag_keys, call_ok)))

RunAutoscalingGroup ==
    /\ AtResource("asg")
    /\ \E call_ok \in BOOLEAN :
          RunStep(after_driver(run,
              handle_autoscaling_group(Listing(run, settings)[run.pos].desc,
                                       Listing(run, settings)[run.pos].tags,
                                       TagConfig(settings), AsgConfig(settings),
                                       now.now_minutes, now.now_token,
                                       settings.notification_tag_keys, call_ok)))

NextKind ==
    /\ run.pc = "kinds"
    /\ \/ ~Enabled(settings, Kinds[run.kind])
       \/ run.listed /\ run.pos > Len(Listing(run, settings))
    /\ RunStep(next_kind(run))

NotifySends(sends) ==
    \E fail_at \in 0..Len(sends) : RunStep(notify(run, sends, fail_at))

Notify ==
    /\ run.pc = "notify"
    /\ NotifySends(maybe_send_notifications(run.accounts[1][run.account], run.changes))

Return ==
    /\ run.pc = "account"
    /\ run.account > Len(run.accounts[1])
    /\ RunStep([run EXCEPT !.pc = "done", !.result = Some(run.summary)])

RunNext ==
    \/ Start
    \/ BeginAccount
    \/ Enumerate
    \/ RunInstance
    \/ RunRdsInstance
    \/ RunRdsCluster
    \/ RunAutoscalingGroup
    \/ NextKind
    \/ Notify
    \/ Return

RunSpec == RunInit /\ [][RunNext]_vars

----------------------------------------------------------------------------
(* Properties of the drivers (specification Spec).                         *)

WasInvoked == last.seen # None

Binary == res.kind \in {"ec2", "rds-instance", "rds-cluster"}

\* the status the last invocation read from the descriptor
SeenStatus ==
    IF last.seen[1].kind = "ec2" THEN last.seen[1].State
    ELSE IF last.seen[1].kind = "rds-instance" THEN last.seen[1].DBInstanceStatus
    ELSE IF last.seen[1].kind = "rds-cluster" THEN last.seen[1].Status
    ELSE "none"

ActiveStatus == IF res.kind = "ec2" THEN "running" ELSE "available"

\* the evaluation of the resource's tags at the run's time context
Desired ==
    evaluate_schedule(tags, TagConfig(settings), now.now_minutes, now.now_token)

StartOps == {"start_instances", "start_db_instance", "start_db_cluster"}

StopOps == {"stop_instances", "stop_db_instance", "stop_db_cluster"}

CallOp == IF last.out.call = None THEN "none" ELSE last.out.call[1].op

ChangeAction == IF last.out.change = None THEN "none" ELSE last.out.change[1].action

\* the tag lookup of a database driver raised
LookupFailed == last.out.raised /\ last.out.call = None

\* the last invocation got as far as evaluating the tags: a database instance
\* that belongs to a cluster or a descriptor without ARN is skipped before
EvaluatedTags ==
    /\ ~LookupFailed
    /\ last.seen[1].kind = "rds-instance" =>
          last.seen[1].DBClusterIdentifier = None /\ last.seen[1].DBInstanceArn # None
    /\ last.seen[1].kind = "rds-cluster" => last.seen[1].DBClusterArn # None
    /\ last.seen[1].kind = "asg" => last.seen[1].AutoScalingGroupName # None

\* C1: in every driver, whatever the status or capacity, an undetermined
\* evaluation of the resource's tags means no mutating call is ever issued and
\* no Change Record is returned.
C1_UndeterminedNeverMutates ==
    Desired = None =>
        /\ issued = 0
        /\ WasInvoked => last.out.call = None /\ last.out.change = None

C1_Witness ==
    /\ WasInvoked /\ last.out.reached /\ Desired = None
    /\ res.kind = "asg"
    /\ res.MinSize = Some(1)
    /\ "Schedule" \in DOMAIN tags
    /\ {"Schedule_Asg_Min", "Schedule_Asg_Max", "Schedule_Asg_Desired"} \subseteq DOMAIN tags

\* C2 as stated: in the binary drivers a start call with a start record
\* happens exactly when the tags evaluate to run and the status is "stopped",
\* a stop call with a stop record exactly when they evaluate to halt and the
\* status is "running"/"available"; anything else is a no-op.
C2_CallAndRecordIffDesiredAndStatus ==
    (WasInvoked /\ Binary) =>
        /\ (CallOp \in StartOps /\ ChangeAction = "start")
              <=> (Desired = Some(TRUE) /\ SeenStatus = "stopped")
        /\ (CallOp \in StopOps /\ ChangeAction = "stop")
              <=> (Desired = Some(FALSE) /\ SeenStatus = ActiveStatus)
        /\ ~(Desired = Some(TRUE) /\ SeenStatus = "stopped")
              /\ ~(Desired = Some(FALSE) /\ SeenStatus = ActiveStatus)
              => last.out.call = None /\ last.out.change = None

\* C2 amended: for an invocation that evaluates the tags, the start call is
\* issued exactly when they evaluate to run and the status is "stopped", the
\* stop call exactly when they evaluate to halt and the status is
\* "running"/"available"; the matching record is returned exactly when the
\* issued call returns without error; a skipped resource gets no call.
C2_CallIffDesiredAndStatus ==
    (WasInvoked /\ Binary) =>
        /\ CallOp \in StartOps
              <=> (EvaluatedTags /\ Desired = Some(TRUE) /\ SeenStatus = "stopped")
        /\ CallOp \in StopOps
              <=> (EvaluatedTags /\ Desired = Some(FALSE) /\ SeenStatus = ActiveStatus)
        /\ CallOp \in StartOps \cup StopOps \cup {"none"}
        /\ ChangeAction = "start" <=> (CallOp \in StartOps /\ ~last.out.raised)
        /\ ChangeAction = "stop" <=> (CallOp \in StopOps /\ ~last.out.raised)
        /\ ChangeAction \in {"start", "stop", "none"}

C2_Witness ==
    /\ WasInvoked /\ res.kind = "rds-instance"
    /\ SeenStatus = "stopped" /\ Desired = Some(TRUE)
    /\ CallOp = "start_db_instance" /\ ChangeAction = "start"

FlagMatches ==
    tag_value_match(Get(tags, "Schedule"), Some(settings.tag_schedule_value))

TodayExcluded ==
    /\ parse_weekdays(Get(tags, "Schedule_Weekend")) # None
    /\ now.now_token \notin parse_weekdays(Get(tags, "Schedule_Weekend"))[1]

TodayIncluded ==
    /\ parse_weekdays(Get(tags, "Schedule_Weekend")) # None
    /\ now.now_token \in parse_weekdays(Get(tags, "Schedule_Weekend"))[1]

\* what the start and stop tags alone would give at this time
WindowAlone ==
    EvaluateWindow(Get(tags, "Schedule_Start"), Get(tags, "Schedule_Stop"),
                   now.now_minutes)

\* C3: a resource whose flag matches and whose weekday set does not hold
\* today is left alone whatever its window and status: the evaluation is
\* undetermined, never halt, and no call is issued.
C3_ExcludedDayLeftAlone ==
    (FlagMatches /\ TodayExcluded) =>
        /\ Desired = None
        /\ issued = 0
        /\ WasInvoked =>
              /\ last.out.call = None /\ last.out.change = None
              /\ last.out.should_run = None

C3_Witness ==
    /\ FlagMatches /\ TodayExcluded
    /\ WindowAlone = Some(FALSE)
    /\ WasInvoked /\ last.out.reached
    /\ res.kind = "ec2" /\ res.State = "running"

\* the terminal status that matches the desired state
TerminalMatch ==
    \/ Desired = Some(TRUE) /\ SeenStatus = ActiveStatus
    \/ Desired = Some(FALSE) /\ SeenStatus = "stopped"

\* C4 as stated: repeated evaluations of a binary driver on an unchanged
\* resource issue at most one mutating call in total.
C4_AtMostOneCallIssued == Binary => issued <= 1

\* C4 amended: at most one mutating call returns without error (a call that
\* raises leaves the status as it was, and the next evaluation issues it
\* again), and no call is issued once the status is the terminal one that
\* matches the desired state.
C4_AtMostOneCallSucceeds ==
    Binary =>
        /\ succeeded <= 1
        /\ (WasInvoked /\ TerminalMatch) => last.out.call = None

C4_Witness ==
    /\ Binary /\ WasInvoked /\ TerminalMatch
    /\ succeeded = 1 /\ issued = 2
    /\ last.out.call = None

\* C5: once an invocation of the compute-instance driver has returned a
\* Change Record, the next invocation, which sees the transitional or the
\* terminal status the call led to, issues no call and returns none.
C5_SecondInvocationReturnsNone ==
    [][ (res.kind = "ec2" /\ succeeded >= 1 /\ last' # last) =>
            /\ last'.out.call = None /\ last'.out.change = None
            /\ ~last'.out.raised
            /\ issued' = issued /\ succeeded' = 1 ]_vars

C5_Witness ==
    /\ res.kind = "ec2" /\ succeeded = 1 /\ issued = 1
    /\ WasInvoked /\ SeenStatus = "pending"
    /\ last.out.change = None

\* a text that spells the integer n for int()
Spells(t, n) == IntOfText(t) = Returned(n)

\* HH or HH:MM with the hour in 0..23 and the minute in 0..59
IsClockText(t) ==
    \/ \E h \in 0..23 : Spells(t, h)
    \/ \E i \in 1..Len(t) :
          /\ t[i] = ":"
          /\ \E h \in 0..23 : Spells(SubSeq(t, 1, i - 1), h)
          /\ \E m \in 0..59 : Spells(SubSeq(t, i + 1, Len(t)), m)

BadTimeTag(key) == key \notin DOMAIN tags \/ ~IsClockText(tags[key])

\* C9: with the flag and the weekday passed, a start or stop tag that is
\* missing or is not HH or HH:MM in range makes the evaluation undetermined;
\* the driver returns none, issues nothing and raises nothing.
C9_BadTimeTagIsUndetermined ==
    (FlagMatches /\ TodayIncluded
        /\ (BadTimeTag("Schedule_Start") \/ BadTimeTag("Schedule_Stop"))) =>
        /\ Desired = None
        /\ issued = 0
        /\ WasInvoked =>
              /\ last.out.call = None /\ last.out.change = None
              /\ last.out.reached => ~last.out.raised /\ last.out.should_run = None

C9_Witness ==
    /\ FlagMatches /\ TodayIncluded
    /\ Get(tags, "Schedule_Start") = Some(<<"2", "4">>)
    /\ ~BadTimeTag("Schedule_Stop")
    /\ WasInvoked /\ last.out.reached
    /\ res.kind = "ec2" /\ res.State = "running"

----------------------------------------------------------------------------
(* Properties of _should_run (specification WindowSpec).                   *)

\* C6: without wrap-around (start <= stop) the window is run exactly when
\* start <= now < stop: run at now = start of a window that is not empty,
\* halt at now = stop, and halt always when start = stop.
C6_WindowWithoutWrap ==
    (win.done /\ win.s <= win.e) =>
        /\ win.out <=> (win.s <= win.n /\ win.n < win.e)
        /\ (win.n = win.s /\ win.s < win.e) => win.out
        /\ win.n = win.e => ~win.out
        /\ win.s = win.e => ~win.out

C6_Witness ==
    /\ win.done /\ win.s = 360 /\ win.e = 1380 /\ win.n = 360 /\ win.out

\* C7: across midnight (start > stop) the window is run exactly when
\* now >= start or now < stop; for 23:00 to 06:00 that is run at 1439, 0 and
\* 359 and halt at 360 and 1379.
C7_WindowWithWrap ==
    (win.done /\ win.s > win.e) =>
        /\ win.out <=> (win.n >= win.s \/ win.n < win.e)
        /\ (win.s = 1380 /\ win.e = 360 /\ win.n \in {1439, 0, 359}) => win.out
        /\ (win.s = 1380 /\ win.e = 360 /\ win.n \in {360, 1379}) => ~win.out

C7_Witness ==
    /\ win.done /\ win.s = 1380 /\ win.e = 360 /\ win.n = 359 /\ win.out

----------------------------------------------------------------------------
(* Properties of _evaluate_schedule (specification EvalSpec).              *)

\* what the steps after the flag give: the weekday set, then the window
AfterFlag ==
    EvaluateWeekdays(parse_weekdays(Get(tags, "Schedule_Weekend")), tags,
                     TagConfig(settings), now.now_minutes, now.now_token)

\* the flag tag is present and, unless the required value is empty, equals
\* it once both are trimmed and their case is ignored
FlagAgrees ==
    /\ "Schedule" \in DOMAIN tags
    /\ \/ settings.tag_schedule_value = <<>>
       \/ Lower(Strip(tags["Schedule"])) = Lower(Strip(settings.tag_schedule_value))

\* C8: an absent flag tag gives undetermined; with an empty required value
\* any present value matches; with a non-empty one the tag matches exactly
\* when the trimmed values are equal ignoring case; no match gives
\* undetermined, a match hands over to the weekday and window steps.
C8_FlagMatch ==
    verdict.done =>
        /\ "Schedule" \notin DOMAIN tags => verdict.result = None
        /\ ~FlagAgrees => verdict.result = None
        /\ FlagAgrees => verdict.result = AfterFlag

C8_Witness ==
    /\ verdict.done
    /\ settings.tag_schedule_value = <<"o","N">>
    /\ Get(tags, "Schedule") = Some(<<" ","o","n"," ">>)
    /\ verdict.result = Some(TRUE)

\* the entries of a comma-separated text: the stretches between the commas
Entries(t) ==
    { SubSeq(t, x[1], x[2]) :
        x \in { y \in (1..(Len(t) + 1)) \X (0..Len(t)) :
                  /\ y[2] >= y[1] - 1
                  /\ (y[1] = 1 \/ t[y[1] - 1] = ",")
                  /\ (y[2] = Len(t) \/ t[y[2] + 1] = ",")
                  /\ \A i \in y[1]..y[2] : t[i] # "," } }

WeekdayNames == { WeekdayTokens[d] : d \in 1..7 }

\* a comma-separated list of weekday abbreviations, blank entries aside
IsWeekdayList(t) ==
    /\ \E e \in Entries(t) : Strip(e) # <<>>
    /\ \A e \in Entries(t) : Strip(e) = <<>> \/ Lower(Strip(e)) \in WeekdayNames

\* some entry is today's abbreviation, whatever its case and the blanks around it
NamesToday(t) == \E e \in Entries(t) : Lower(Strip(e)) = now.now_token

\* C10 as stated: the weekday tag parses into a set of weekday tokens, and a
\* tag that is absent, empty or no list of weekday abbreviations gives
\* undetermined.
C10_UnparseableWeekdaysUndetermined ==
    (verdict.done /\ FlagAgrees) =>
        /\ ("Schedule_Weekend" \notin DOMAIN tags
               \/ ~IsWeekdayList(tags["Schedule_Weekend"])) => verdict.result = None
        /\ parse_weekdays(Get(tags, "Schedule_Weekend")) # None =>
              parse_weekdays(Get(tags, "Schedule_Weekend"))[1] \subseteq WeekdayNames

\* C10 amended: the weekday tag parses into the set of its entries, trimmed
\* and lower-cased, blank ones dropped, whether or not they are weekday
\* abbreviations; a tag that is absent, holds no entry or does not name
\* today gives undetermined, and one that names today hands over to the
\* window whatever else it holds.
C10_WeekdaysNotNamingTodayUndetermined ==
    (verdict.done /\ FlagAgrees) =>
        /\ ("Schedule_Weekend" \notin DOMAIN tags
               \/ ~NamesToday(tags["Schedule_Weekend"])) => verdict.result = None
        /\ ("Schedule_Weekend" \in DOMAIN tags /\ NamesToday(tags["Schedule_Weekend"]))
              => verdict.result
                    = EvaluateWindow(Get(tags, "Schedule_Start"),
                                     Get(tags, "Schedule_Stop"), now.now_minutes)
        /\ parse_weekdays(Get(tags, "Schedule_Weekend")) # None =>
              parse_weekdays(Get(tags, "Schedule_Weekend"))[1]
                 = { Lower(Strip(e)) :
                       e \in { x \in Entries(tags["Schedule_Weekend"]) : Strip(x) # <<>> } }

C10_Witness ==
    /\ verdict.done /\ FlagAgrees
    /\ Get(tags, "Schedule_Weekend") = Some(<<"w",",","w","E","d">>)
    /\ now.now_token = <<"w","e","d">>
    /\ verdict.result = Some(TRUE)

----------------------------------------------------------------------------
(* Properties of _handle_autoscaling_group (specification AsgSpec).        *)

CapacityKeys == {"Schedule_Asg_Min", "Schedule_Asg_Max", "Schedule_Asg_Desired"}

CapacityTagsPresent == CapacityKeys \subseteq DOMAIN tags

\* the last invocation saw a named group that reports its three sizes
SawSizedGroup ==
    /\ WasInvoked
    /\ last.seen[1].kind = "asg"
    /\ last.seen[1].AutoScalingGroupName # None
    /\ last.seen[1].MinSize # None
    /\ last.seen[1].MaxSize # None
    /\ last.seen[1].DesiredCapacity # None

\* the triple of sizes the last invocation read
CurrentTriple ==
    <<last.seen[1].MinSize[1], last.seen[1].MaxSize[1], last.seen[1].DesiredCapacity[1]>>

\* the triple of sizes the last invocation sent
SentTriple ==
    <<last.out.call[1].MinSize, last.out.call[1].MaxSize,
      last.out.call[1].DesiredCapacity>>

NothingDone == last.out.call = None /\ last.out.change = None /\ ~last.out.raised

\* the returned record is a scale record of the group with the detail text
ScaleRecord(details) ==
    /\ last.out.change # None
    /\ last.out.change[1].action = "scale"
    /\ last.out.change[1].resource_type = "asg"
    /\ last.out.change[1].resource_id = last.seen[1].AutoScalingGroupName[1]
    /\ last.out.change[1].details = Some(details)

\* C11: when any of the three capacity tags is missing, the autoscaling
\* driver issues no update-capacity call and returns none, in the run state
\* and in the halt state alike.
C11_MissingCapacityTagNoCall ==
    (res.kind = "asg" /\ ~CapacityTagsPresent) =>
        /\ issued = 0
        /\ WasInvoked => NothingDone

C11_Witness ==
    /\ SawSizedGroup /\ Desired = Some(FALSE)
    /\ DOMAIN tags \cap CapacityKeys = {"Schedule_Asg_Min", "Schedule_Asg_Max"}
    /\ CurrentTriple = <<1, 2, 1>>
    /\ NothingDone

\* C12: in the halt state with the three capacity tags present, a group at
\* (0,0,0) gets no call and no record; any other group gets one
\* update-capacity call with (0,0,0), whatever the tags say, and the scale
\* record "min=0 max=0 desired=0" once the call returns.
C12_HaltScalesToZero ==
    (SawSizedGroup /\ Desired = Some(FALSE) /\ CapacityTagsPresent) =>
        IF CurrentTriple = <<0, 0, 0>> THEN NothingDone
        ELSE /\ last.out.call # None
             /\ last.out.call[1].op = "update_auto_scaling_group"
             /\ SentTriple = <<0, 0, 0>>
             /\ IF last.out.raised THEN last.out.change = None
                ELSE ScaleRecord(<<"m","i","n","=","0"," ","m","a","x","=","0"," ",
                                   "d","e","s","i","r","e","d","=","0">>)

C12_Witness ==
    /\ SawSizedGroup /\ Desired = Some(FALSE) /\ CapacityTagsPresent
    /\ CurrentTriple = <<0, 2, 0>>
    /\ tags["Schedule_Asg_Min"] = <<"2">>
    /\ last.out.call # None /\ last.out.change # None

\* the value a capacity tag resolves to: its integer when int() accepts it,
\* the current size otherwise
ResolvedOf(key, current) ==
    IF key \in DOMAIN tags /\ IntOfText(tags[key]).ok THEN IntOfText(tags[key]).val
    ELSE current

ResolvedMin == ResolvedOf("Schedule_Asg_Min", CurrentTriple[1])

ResolvedMax == ResolvedOf("Schedule_Asg_Max", CurrentTriple[2])

ResolvedDesired == ResolvedOf("Schedule_Asg_Desired", CurrentTriple[3])

ResolvedRejected ==
    ResolvedMin < 0 \/ ResolvedMax < 0 \/ ResolvedDesired < 0 \/ ResolvedMin > ResolvedMax

\* C13: in the run state, resolved values of which one is negative, or of
\* which the minimum exceeds the maximum, give no call and no record.
C13_RejectedTargetNoCall ==
    (SawSizedGroup /\ Desired = Some(TRUE) /\ CapacityTagsPresent /\ ResolvedRejected)
        => NothingDone

C13_Witness ==
    /\ SawSizedGroup /\ Desired = Some(TRUE) /\ CapacityTagsPresent
    /\ CurrentTriple = <<1, 5, 2>>
    /\ ResolvedMin = 3 /\ ResolvedMax = 2 /\ ResolvedDesired = 4
    /\ NothingDone

\* v brought into lo..hi
ClampInto(lo, hi, v) == IF v < lo THEN lo ELSE IF v > hi THEN hi ELSE v

\* the target of the run state: the resolved minimum and maximum, and the
\* resolved desired capacity clamped between them
ExpectedTarget == <<ResolvedMin, ResolvedMax, ClampInto(ResolvedMin, ResolvedMax, ResolvedDesired)>>

TargetDetail(t) ==
    <<"m","i","n","=">> \o TextOfInt(t[1]) \o <<" ","m","a","x","=">> \o TextOfInt(t[2])
        \o <<" ","d","e","s","i","r","e","d","=">> \o TextOfInt(t[3])

\* C14 as the specification states it: a capacity tag that is absent or not
\* numeric falls back to the current size, the desired capacity is clamped,
\* and a target that differs from the current sizes is sent; with sizes
\* (1,10,1) and tags min=2, max=8, no desired tag, the call carries (2,8,2).
C14_AbsentTagFallsBackAndScales ==
    (SawSizedGroup /\ Desired = Some(TRUE) /\ ~ResolvedRejected
        /\ ExpectedTarget # CurrentTriple) =>
        /\ last.out.call # None
        /\ SentTriple = ExpectedTarget

\* C14 as the code has it: with the three capacity tags present, a tag
\* that is not numeric falls back to the current size, the desired capacity
\* is clamped into [min,max], and a target that differs from the current
\* sizes is sent with the detail text of its three values; with sizes
\* (1,10,1) and tags min=2, max=8, desired=x the call carries (2,8,2).
C14_PresentTagsFallBackAndScale ==
    (SawSizedGroup /\ Desired = Some(TRUE) /\ CapacityTagsPresent /\ ~ResolvedRejected
        /\ ExpectedTarget # CurrentTriple) =>
        /\ last.out.call # None
        /\ SentTriple = ExpectedTarget
        /\ ~last.out.raised => ScaleRecord(TargetDetail(ExpectedTarget))

C14_Witness ==
    /\ SawSizedGroup /\ Desired = Some(TRUE) /\ CapacityTagsPresent
    /\ CurrentTriple = <<1, 10, 1>>
    /\ tags["Schedule_Asg_Min"] = <<"2">> /\ tags["Schedule_Asg_Max"] = <<"8">>
    /\ tags["Schedule_Asg_Desired"] = <<"x">>
    /\ last.out.call # None /\ SentTriple = <<2, 8, 2>>
    /\ ScaleRecord(<<"m","i","n","=","2"," ","m","a","x","=","8"," ",
                     "d","e","s","i","r","e","d","=","2">>)

\* the sanitized target of the group the last invocation saw
SanitizedTarget ==
    sanitize_asg_target(build_asg_target(asg_sizes(last.seen[1]), tags,
                                         AsgConfig(settings)))

\* C15: in the run state, a sanitized target equal to the current sizes in
\* all three fields gives no call and no record; one that differs in a field
\* gives one update-capacity call that carries it, and the scale record whose
\* detail states the three values sent once the call returns.
C15_EqualTargetNoCall ==
    (SawSizedGroup /\ Desired = Some(TRUE) /\ CapacityTagsPresent
        /\ SanitizedTarget # None) =>
        IF /\ SanitizedTarget[1].MinSize = CurrentTriple[1]
           /\ SanitizedTarget[1].MaxSize = CurrentTriple[2]
           /\ SanitizedTarget[1].DesiredCapacity = CurrentTriple[3]
        THEN NothingDone
        ELSE /\ last.out.call # None
             /\ last.out.call[1].op = "update_auto_scaling_group"
             /\ last.out.call[1].id = last.seen[1].AutoScalingGroupName[1]
             /\ SentTriple = <<SanitizedTarget[1].MinSize, SanitizedTarget[1].MaxSize,
                               SanitizedTarget[1].DesiredCapacity>>
             /\ IF last.out.raised THEN last.out.change = None
                ELSE ScaleRecord(TargetDetail(SentTriple))

C15_Witness ==
    /\ SawSizedGroup /\ Desired = Some(TRUE) /\ CapacityTagsPresent
    /\ CurrentTriple = <<1, 2, 1>>
    /\ SanitizedTarget = Some([MinSize |-> 1, MaxSize |-> 2, DesiredCapacity |-> 1])
    /\ succeeded = 1
    /\ NothingDone

\* C16: every triple sent in an update-capacity call, in the run state and
\* in the halt state, has 0 <= min <= max and min <= desired <= max.
C16_SentTripleIsValid ==
    (WasInvoked /\ last.seen[1].kind = "asg" /\ last.out.call # None) =>
        /\ 0 <= SentTriple[1] /\ SentTriple[1] <= SentTriple[2]
        /\ SentTriple[1] <= SentTriple[3] /\ SentTriple[3] <= SentTriple[2]

C16_Witness ==
    /\ SawSizedGroup /\ Desired = Some(TRUE) /\ last.out.call # None
    /\ ResolvedDesired = 0
    /\ SentTriple = <<1, 2, 1>>

----------------------------------------------------------------------------
(* Properties of _handle_rds_instance (specification Spec).                *)

\* C17: a database instance whose descriptor names a cluster is skipped
\* whatever its tags and status: the tags are not looked up, no start or
\* stop call is issued and no record is returned.
C17_ClusterMemberSkipped ==
    (res.kind = "rds-instance" /\ res.DBClusterIdentifier # None) =>
        /\ issued = 0
        /\ WasInvoked => NothingDone /\ ~last.out.reached

C17_Witness ==
    /\ WasInvoked /\ res.kind = "rds-instance"
    /\ res.DBClusterIdentifier = Some("c-1") /\ res.DBInstanceArn # None
    /\ res.DBInstanceStatus = "stopped" /\ Desired = Some(TRUE)
    /\ NothingDone

----------------------------------------------------------------------------
(* Properties of handler (specification RunSpec).                          *)

\* the Change Records accumulated for the account at position a of the list:
\* those of its summary entry, or those of the account in progress
AccountChanges(a) ==
    IF a <= Len(run.summary) THEN run.summary[a].changes ELSE run.changes

\* the channels a post was made to for the account at position a
ChannelsPosted(a) ==
    { run.sent[i].channel : i \in { j \in 1..Len(run.sent) : run.sent[j].account = a } }

ChannelsConfigured(a) ==
    { Channels[i] : i \in { j \in 1..Len(Channels) :
                              Configured(run.accounts[1][a], Channels[j]) } }

\* C18: a notification is made for an account only when its list of Change
\* Records is not empty, and every post carries that list as accumulated; an
\* account that ends with an empty list gets no post on any channel, one that
\* ends with records gets a post on each of its configured channels.
C18_NotificationOnlyForChanges ==
    /\ \A i \in 1..Len(run.sent) :
          /\ run.sent[i].changes # <<>>
          /\ run.sent[i].changes = AccountChanges(run.sent[i].account)
    /\ \A a \in 1..Len(run.summary) :
          ChannelsPosted(a) = IF run.summary[a].changes = <<>> THEN {}
                              ELSE ChannelsConfigured(a)

C18_Witness ==
    /\ run.pc = "done"
    /\ Len(run.summary) = 2
    /\ run.summary[1].changes = <<>> /\ ChannelsConfigured(1) = {"telegram"}
    /\ ChannelsPosted(1) = {}
    /\ Len(run.summary[2].changes) >= 2
    /\ ChannelsPosted(2) = {"teams", "slack"}

\* C19: when the timezone identifier does not resolve, the run ends with an
\* error before the first account: no role is assumed, nothing is enumerated,
\* no mutating call is issued and nothing is posted.
C19_TimezoneFailureAbortsFirst ==
    settings.timezone \notin KnownZones =>
        /\ run.pc \in {"start", "failed"}
        /\ run.pc = "failed" => run.error # None
        /\ run.assumed = <<>> /\ run.enumerated = <<>>
        /\ run.calls = <<>> /\ run.sent = <<>>
        /\ run.summary = <<>> /\ run.result = None

C19_Witness ==
    /\ settings.timezone = <<"M","a","r","s","/","P","h","o","b","o","s">>
    /\ run.zoneinfo /\ run.accounts = Some(<<FirstAccount>>)
    /\ settings.enable_ec2
    /\ run.pc = "failed"
    /\ run.error = Some([reason |-> "Failed to load timezone", call |-> None])

RunEnded == run.pc \in {"done", "failed"}

\* a mutating call for a resource raised
ResourceCallFailed ==
    /\ run.error # None
    /\ run.error[1].reason = "provider"
    /\ run.error[1].call # None
    /\ "id" \in DOMAIN run.error[1].call[1]

\* some resource of the run has given a Change Record
RecordsProduced == \E a \in 1..Len(run.accounts[1]) : AccountChanges(a) # <<>>

\* C20: when a provider call fails for one resource, the Change Records
\* already produced for the other resources of the run are not lost: at the
\* end of the run they are in the run's summary and, where a channel is
\* configured, in a notification of their account.
C20_FailureKeepsSiblingRecords ==
    (RunEnded /\ ResourceCallFailed /\ RecordsProduced) =>
        /\ run.result # None
        /\ \A a \in 1..run.account :
              /\ a <= Len(run.result[1])
              /\ run.result[1][a].changes = AccountChanges(a)
              /\ AccountChanges(a) # <<>> => ChannelsPosted(a) = ChannelsConfigured(a)

\* the resource kind a mutating call is made on
KindOfCall(call) ==
    IF call.op \in {"start_instances", "stop_instances"} THEN "ec2"
    ELSE IF call.op \in {"start_db_instance", "stop_db_instance"} THEN "rds-instance"
    ELSE IF call.op \in {"start_db_cluster", "stop_db_cluster"} THEN "rds-cluster"
    ELSE "asg"

\* the enable flag of a kind as the settings give it: one flag for compute,
\* one for both database kinds, one for autoscaling
FlagOf(kind) ==
    IF kind = "ec2" THEN settings.enable_ec2
    ELSE IF kind \in {"rds-instance", "rds-cluster"} THEN settings.enable_rds
    ELSE settings.enable_asg

RecordsOf(changes) == { changes[i] : i \in 1..Len(changes) }

\* every Change Record of the run so far: of the account in progress, of the
\* summary and of the posts
AllRecords ==
    RecordsOf(run.changes)
    \cup UNION { RecordsOf(run.summary[a].changes) : a \in 1..Len(run.summary) }
    \cup UNION { RecordsOf(run.sent[i].changes) : i \in 1..Len(run.sent) }

\* the kinds the run has touched: enumerated, called or recorded
KindsTouched ==
    { run.enumerated[i][2] : i \in 1..Len(run.enumerated) }
    \cup { KindOfCall(run.calls[i].call) : i \in 1..Len(run.calls) }
    \cup { r.resource_type : r \in AllRecords }

\* none of the three enable flags is set in the environment
FlagsUnset ==
    \E env \in RunEnvs :
        /\ Get(env, "ENABLE_EC2") = None
        /\ Get(env, "ENABLE_RDS") = None
        /\ Get(env, "ENABLE_ASG") = None
        /\ settings = load_settings(env)

\* C21: a kind whose enable flag is false is never enumerated, never gets a
\* mutating call and gives no Change Record in any account's list; with no
\* flag set in the environment only the compute instances are touched.
C21_DisabledKindUntouched ==
    /\ \A k \in KindsTouched : FlagOf(k)
    /\ FlagsUnset => KindsTouched \subseteq {"ec2"}

C21_Witness ==
    /\ run.pc = "done"
    /\ FlagsUnset
    /\ run.accounts = Some(<<FirstAccount, QuietAccount>>)
    /\ KindsTouched = {"ec2"}
    /\ \E i \in 1..Len(run.calls) : run.calls[i].call.op = "start_instances"
    /\ run.summary[1].changes # <<>>

\* what the driver of its kind returns for a listed resource when its
\* provider calls return
DriverResult(r) ==
    IF r.desc.kind = "ec2"
    THEN handle_instance(r.desc, r.tags, TagConfig(settings), now.now_minutes,
                         now.now_token, settings.notification_tag_keys, TRUE).change
    ELSE IF r.desc.kind = "rds-instance"
    THEN handle_rds_instance(r.desc, [ok |-> TRUE, tags |-> r.tags],
                             TagConfig(settings), now.now_minutes, now.now_token,
                             settings.notification_tag_keys, TRUE).change
    ELSE IF r.desc.kind = "rds-cluster"
    THEN handle_rds_cluster(r.desc, [ok |-> TRUE, tags |-> r.tags],
                            TagConfig(settings), now.now_minutes, now.now_token,
                            settings.notification_tag_keys, TRUE).change
    ELSE handle_autoscaling_group(r.desc, r.tags, TagConfig(settings),
                                  AsgConfig(settings), now.now_minutes, now.now_token,
                                  settings.notification_tag_keys, TRUE).change

IsRecord(result) == result # None

\* the non-none results of a sequence of driver results, in their order
NonNone(results) ==
    [i \in 1..Len(SelectSeq(results, IsRecord)) |-> SelectSeq(results, IsRecord)[i][1]]

\* the non-none driver results for the first n resources listed for a kind
\* of the account at position a, in enumeration order; nothing for a kind
\* that is not enabled
ProducedFor(a, k, n) ==
    IF ~FlagOf(Kinds[k]) THEN <<>>
    ELSE NonNone([i \in 1..n |->
            DriverResult(ListingOf(run.world[run.accounts[1][a].account_id[1]][Kinds[k]],
                                   Kinds[k], settings)[i])])

ListedFor(a, k) ==
    Len(ListingOf(run.world[run.accounts[1][a].account_id[1]][Kinds[k]], Kinds[k],
                  settings))

\* the number of resources of kind k the loop has been through for the
\* account in progress
DoneOf(k) ==
    IF run.pc = "notify" \/ k < run.kind THEN ListedFor(run.account, k)
    ELSE IF k = run.kind /\ run.listed THEN run.pos - 1
    ELSE 0

\* the records of a whole account, kind after kind
ProducedByAccount(a) ==
    ProducedFor(a, 1, ListedFor(a, 1)) \o ProducedFor(a, 2, ListedFor(a, 2))
        \o ProducedFor(a, 3, ListedFor(a, 3)) \o ProducedFor(a, 4, ListedFor(a, 4))

\* the records of the account in progress, up to the resource the loop is at
ProducedSoFar ==
    ProducedFor(run.account, 1, DoneOf(1)) \o ProducedFor(run.account, 2, DoneOf(2))
        \o ProducedFor(run.account, 3, DoneOf(3)) \o ProducedFor(run.account, 4, DoneOf(4))

\* C22: the list of an account holds exactly the non-none driver results,
\* once each and in the order produced (resources in enumeration order, kinds
\* in the order compute instances, database instances, database clusters,
\* autoscaling groups), and the same list is handed to the notification and
\* put into the summary.
C22_ChangesInProductionOrder ==
    /\ run.pc \in {"kinds", "notify"} => run.changes = ProducedSoFar
    /\ \A a \in 1..Len(run.summary) : run.summary[a].changes = ProducedByAccount(a)
    /\ \A i \in 1..Len(run.sent) :
          run.sent[i].changes = ProducedByAccount(run.sent[i].account)
    /\ run.result # None => run.result[1] = run.summary

C22_Witness ==
    /\ run.pc = "done"
    /\ run.accounts = Some(<<FirstAccount>>)
    /\ settings.enable_ec2 /\ settings.enable_rds /\ settings.enable_asg
    /\ now.now_minutes = 18 * 60
    /\ Len(run.result[1][1].changes) = 3
    /\ run.result[1][1].changes[1].resource_id = "i-2"
    /\ run.result[1][1].changes[2].resource_id = "c-1"
    /\ run.result[1][1].changes[3].resource_id = "g-1"
    /\ Len(run.sent) = 2

\* the text with a blank put on each side of every comma and at both ends
RECURSIVE PadCommas(_)
PadCommas(t) ==
    IF t = <<>> THEN <<>>
    ELSE (IF Head(t) = "," THEN <<" ", ",", " ">> ELSE <<Head(t)>>) \o PadCommas(Tail(t))

Padded(t) == <<" ">> \o PadCommas(t) \o <<" ">>

\* the weekday set does not depend on the case of the text, on blanks around
\* the entries or on empty entries
WeekdaysTolerant(t) ==
    /\ parse_weekdays(Some(Lower(t))) = parse_weekdays(Some(t))
    /\ parse_weekdays(Some(Upper(t))) = parse_weekdays(Some(t))
    /\ parse_weekdays(Some(Padded(t))) = parse_weekdays(Some(t))
    /\ parse_weekdays(Some(t \o <<",">>)) = parse_weekdays(Some(t))
    /\ parse_weekdays(Some(<<",">> \o t)) = parse_weekdays(Some(t))

MonTueWed == { WeekdayTokens[1], WeekdayTokens[2], WeekdayTokens[3] }

\* C23: the weekday set is parsed without regard to case, to blanks around
\* the entries and to empty entries; "Mon, TUE ,wed" parses to {mon, tue, wed}
\* and the test of today's token passes on exactly those three days.
C23_WeekdaysCaseAndBlankTolerant ==
    (verdict.done /\ FlagAgrees /\ "Schedule_Weekend" \in DOMAIN tags) =>
        /\ WeekdaysTolerant(tags["Schedule_Weekend"])
        /\ tags["Schedule_Weekend"] \in WeekdayExamples =>
              /\ parse_weekdays(Get(tags, "Schedule_Weekend")) = Some(MonTueWed)
              /\ verdict.result # None <=> now.now_token \in MonTueWed

C23_Witness ==
    /\ verdict.done
    /\ Get(tags, "Schedule_Weekend")
          = Some(<<"M","o","n",","," ","T","U","E"," ",",","w","e","d">>)
    /\ now.now_token = <<"t","u","e">>
    /\ verdict.result = Some(TRUE)

----------------------------------------------------------------------------
(* Records and calls of the drivers (specification Spec).                  *)

\* the action a Change Record states for a mutating call
ActionOfCall(call) ==
    IF call.op \in {"start_instances", "start_db_instance", "start_db_cluster"}
    THEN "start"
    ELSE IF call.op \in {"stop_instances", "stop_db_instance", "stop_db_cluster"}
    THEN "stop"
    ELSE "scale"

\* the identifier of the resource a driver was invoked on
IdentifierOf(r) ==
    IF r.kind = "ec2" THEN r.InstanceId
    ELSE IF r.kind = "rds-instance" THEN r.DBInstanceIdentifier
    ELSE IF r.kind = "rds-cluster" THEN r.DBClusterIdentifier
    ELSE r.AutoScalingGroupName[1]

\* the detail of the record of a call: the triple sent for an update of the
\* capacity, none for a start or a stop
DetailOfCall(call) ==
    IF call.op = "update_auto_scaling_group"
    THEN Some(ScaleDetails(call.MinSize, call.MaxSize, call.DesiredCapacity))
    ELSE None

\* the record states the call: its action, the kind and the identifier of
\* the resource the driver was invoked on, the triple sent
RecordStatesCall(change, call, seen) ==
    /\ change.action = ActionOfCall(call)
    /\ change.resource_type = KindOfCall(call)
    /\ change.resource_type = seen.kind
    /\ change.resource_id = call.id
    /\ change.resource_id = IdentifierOf(seen)
    /\ change.details = DetailOfCall(call)

\* C24: a driver invocation returns a Change Record if and only if it issued
\* its one mutating call and the call returned without error, and the record
\* states that call: start, stop or scale, the resource's identifier and, for
\* scale, the triple that was sent; over the invocations the calls that
\* returned are never more than the calls issued.
C24_RecordIffCallReturned ==
    /\ succeeded <= issued
    /\ WasInvoked =>
          /\ last.out.change # None <=> (last.out.call # None /\ ~last.out.raised)
          /\ last.out.change # None =>
                RecordStatesCall(last.out.change[1], last.out.call[1], last.seen[1])

C24_Witness ==
    /\ WasInvoked
    /\ last.seen[1].kind = "asg"
    /\ last.out.call = Some(UpdateCall("g-1", 2, 8, 2))
    /\ last.out.change # None
    /\ last.out.change[1].action = "scale"
    /\ last.out.change[1].details
          = Some(<<"m","i","n","=","2"," ","m","a","x","=","8"," ",
                   "d","e","s","i","r","e","d","=","2">>)
    /\ succeeded = 1

----------------------------------------------------------------------------
(* Repeated evaluations of one group (specification AsgSpec).              *)

\* the last evaluation read the sizes the group has now: after an update
\* that returned, it is an evaluation later than that update
SawGroupAsItIs == WasInvoked /\ last.seen[1] = res

\* C25: for fixed tags and time context, once an update-capacity call has
\* returned and the group reports the triple sent, every later evaluation
\* issues no call and returns none, in the halt state and in the run state,
\* with desired clamped or a field fallen back to the current value: no
\* second update ever returns, and none is issued.
C25_GroupFixpointAfterOneUpdate ==
    res.kind = "asg" =>
        /\ succeeded <= 1
        /\ (succeeded = 1 /\ SawGroupAsItIs) => NothingDone

C25_Witness ==
    /\ succeeded = 1 /\ issued = 1
    /\ SawGroupAsItIs /\ NothingDone
    /\ Desired = Some(TRUE)
    /\ CurrentTriple = <<2, 8, 2>>
    /\ tags["Schedule_Asg_Min"] = <<"2">> /\ tags["Schedule_Asg_Max"] = <<"8">>
    /\ tags["Schedule_Asg_Desired"] = <<"x">>

====
